---------------------------- MODULE Spec2Model ----------------------------
(***************************************************************************)
(* The term-resolution engine of the dictionary application:              *)
(*   search_engine.rs  SearchEngine (inflection index, usage counters,     *)
(*                     search / get_suggestions / get_inflections /        *)
(*                     get_stats / cleanup_and_shutdown)                   *)
(*   database.rs       Database (the store behind one connection mutex)    *)
(* Several threads call the engine through clones of one handle; every     *)
(* Mutex acquisition is a step of its own, so that the states in which a   *)
(* thread holds or waits for a lock are states of the model.               *)
(* Strings are sequences of one-character strings.                         *)
(***************************************************************************)
EXTENDS Integers, Sequences, FiniteSets, TLC

VARIABLES
    store,           \* rows of table dictionary_entries, in storage order
    inflection_map,  \* SearchEngine.inflection_map: form -> <<(lemma, tag), ...>>
    stats,           \* SearchEngine.stats: the four usage counters
    mutex,           \* owner of each of the three Mutexes (or NoThread)
    th,              \* per thread: position, locals of the running call, result
    calls,           \* number of operations invoked so far
    app_state,       \* main.rs AppState.search_engine: the slot and its guard
    hist,            \* what has been observed so far; no step of the program reads it
    arcs,            \* the reference-counted cells that handles point to
    handles,         \* the engine handles made so far, each a pair of pointers
    tsv,             \* the inflection source file under load_inflection_map
    plugin_manager,  \* PluginManager.plugins: identifier -> PluginInfo
    plugins_dir,     \* the plugin directories on disk, each with its manifest
    plugin_call      \* the last call on the PluginManager and what it returned

vars == <<store, inflection_map, stats, mutex, th, calls, app_state, hist, arcs, handles,
          tsv, plugin_manager, plugins_dir, plugin_call>>

-----------------------------------------------------------------------------
(* Bounds *)

\* Engine operations invoked in one behaviour (caps the u64 counters).
MaxCalls == 2

-----------------------------------------------------------------------------
(* Strings *)

TAB == "\t"
NL == "\n"
SP == " "

\* char::is_whitespace on the characters that occur here
IsWhite(c) == c \in {SP, TAB, NL, "\r"}

\* char::to_lowercase on the characters that occur here
Lower(c) ==
    CASE c = "R" -> "r"
      [] c = "U" -> "u"
      [] c = "N" -> "n"
      [] c = "A" -> "a"
      [] c = "W" -> "w"
      [] c = "S" -> "s"
      [] OTHER -> c

to_lowercase(s) == [i \in 1..Len(s) |-> Lower(s[i])]

\* str::trim: the longest slice without leading and trailing whitespace
trim(s) ==
    LET nonw == {i \in 1..Len(s) : ~IsWhite(s[i])}
    IN  IF nonw = {} THEN <<>>
        ELSE LET lo == CHOOSE i \in nonw : \A j \in nonw : i <= j
                 hi == CHOOSE i \in nonw : \A j \in nonw : j <= i
             IN  SubSeq(s, lo, hi)

starts_with(s, c) == Len(s) > 0 /\ s[1] = c

\* str::split(sep): the fields between the separators; always at least one field
RECURSIVE split(_, _)
split(s, sep) ==
    LET hits == {i \in 1..Len(s) : s[i] = sep}
    IN  IF hits = {} THEN <<s>>
        ELSE LET k == CHOOSE i \in hits : \A j \in hits : i <= j
             IN  <<SubSeq(s, 1, k - 1)>> \o split(SubSeq(s, k + 1, Len(s)), sep)

\* str::lines: split at "\n"; a final empty piece is not a line; a line's
\* trailing "\r" is dropped
lines(content) ==
    LET raw == split(content, NL)
        cut == IF raw[Len(raw)] = <<>> THEN SubSeq(raw, 1, Len(raw) - 1) ELSE raw
        strip(l) == IF Len(l) > 0 /\ l[Len(l)] = "\r" THEN SubSeq(l, 1, Len(l) - 1) ELSE l
    IN  [i \in 1..Len(cut) |-> strip(cut[i])]

\* The elements of s at the positions idx, in order
Pick(s, idx) ==
    [k \in 1..Cardinality(idx) |->
        s[CHOOSE i \in idx : Cardinality({j \in idx : j <= i}) = k]]

\* [String]::join(sep)
RECURSIVE join(_, _)
join(ss, sep) ==
    IF Len(ss) = 0 THEN <<>>
    ELSE IF Len(ss) = 1 THEN ss[1]
    ELSE ss[1] \o sep \o join(Tail(ss), sep)

-----------------------------------------------------------------------------
(* Words of the scenarios *)

w_run == <<"r", "u", "n">>
w_ran == <<"r", "a", "n">>
w_was == <<"w", "a", "s">>
w_be  == <<"b", "e">>
w_saw == <<"s", "a", "w">>
w_see == <<"s", "e", "e">>
w_xy  == <<"x", "y">>

\* What callers type: mixed case and surrounding blanks included.
RawTerms ==
    { <<SP, "R", "a", "n", SP>>,    \* " Ran "
      w_was,
      <<"S", "a", "w">>,            \* "Saw"
      <<"R", "U", "N">>,            \* "RUN"
      w_xy }

-----------------------------------------------------------------------------
(* The inflection source file and its load *)

\* One line "<form>\t<lemma>\t<tag>\n"
Line3(form, lemma, tag) == form \o <<TAB>> \o lemma \o <<TAB>> \o tag \o <<NL>>

SourceA ==
    <<"#", SP, "c", NL>>                                   \* comment
    \o Line3(<<"R", "a", "n">>, w_run, <<"V", "D">>)       \* "Ran" is lowercased
    \o <<SP, NL>>                                          \* blank
    \o Line3(w_ran, <<"R", "u", "n">>, <<"V", "N">>)       \* same form, same lemma
    \o <<"b", "a", "d", TAB, "x", NL>>                     \* two fields: malformed
    \o Line3(w_was, w_be, <<"V", "D">>)                    \* lemma the store lacks
    \o Line3(w_saw, w_see, <<"V", "D">>)
    \o Line3(w_saw, w_saw, <<"N", "N">>)

\* The scenario of the specification: running -> run, run -> run (shortened
\* to ran -> run) with no other line.
SourceB ==
    Line3(w_ran, w_run, <<"V", "G">>)
    \o Line3(w_run, w_run, <<"V", "B">>)

Sources == {SourceA, SourceB}

\* Variant: a pair the form already has is not pushed again
push_entry_unique(map, k, v) ==
    IF k \in DOMAIN map
    THEN IF \E i \in 1..Len(map[k]) : map[k][i] = v THEN map
         ELSE [map EXCEPT ![k] = Append(@, v)]
    ELSE [x \in DOMAIN map \cup {k} |-> IF x = k THEN <<v>> ELSE map[x]]

\* HashMap::entry(k).or_insert_with(Vec::new).push(v)
push_entry(map, k, v) ==
    IF k \in DOMAIN map
    THEN [map EXCEPT ![k] = Append(@, v)]
    ELSE [x \in DOMAIN map \cup {k} |-> IF x = k THEN <<v>> ELSE map[x]]

\* The body of the loop of load_inflection_map for one line
load_line(map, line) ==
    IF trim(line) = <<>> \/ starts_with(line, "#") THEN map
    ELSE LET parts == split(line, TAB)
         IN  IF Len(parts) >= 3
             THEN push_entry(map, to_lowercase(parts[1]),
                             <<to_lowercase(parts[2]), parts[3]>>)
             ELSE map

\* Variant: the loop ends at the first malformed line (break for continue)
RECURSIVE load_lines_breaking(_, _)
load_lines_breaking(map, ls) ==
    IF Len(ls) = 0 THEN map
    ELSE IF /\ trim(ls[1]) # <<>>
            /\ ~starts_with(ls[1], "#")
            /\ Len(split(ls[1], TAB)) < 3
         THEN map
    ELSE load_lines_breaking(load_line(map, ls[1]), Tail(ls))

\* for (line_num, line) in content.lines().enumerate()
RECURSIVE load_lines(_, _)
load_lines(map, ls) ==
    IF Len(ls) = 0 THEN map ELSE load_lines(load_line(map, ls[1]), Tail(ls))

EmptyMap == [x \in {} |-> <<>>]

load_inflection_map(content) == load_lines(EmptyMap, lines(content))

-----------------------------------------------------------------------------
(* The store *)

\* A row of dictionary_entries: the identifier, the lemma, pos standing for
\* the text columns, which the engine only carries, and frequency_meaning, a
\* text column that may be empty.
Row(id, lemma, pos, frequency_meaning) ==
    [id |-> id, lemma |-> lemma, pos |-> pos, frequency_meaning |-> frequency_meaning]

\* Identifiers are unique; storage order is neither identifier order nor
\* frequency order.
StoreA == << Row(5, w_run, "v", "2"), Row(7, w_saw, "n", ""), Row(3, w_run, "n", "9"),
             Row(2, w_see, "v", "4"), Row(1, w_saw, "v", "6") >>

\* The scenario of the specification: lemma run with one entry, id 5.
StoreB == << Row(5, w_run, "v", "2") >>

Stores == {StoreA, StoreB}

\* Variant: the rows ordered by identifier (ORDER BY id)
SelectByLemma_by_id(rows, term) ==
    LET sel == {i \in 1..Len(rows) : rows[i].lemma = term}
    IN  [n \in 1..Cardinality(sel) |->
            rows[CHOOSE i \in sel :
                    Cardinality({j \in sel : rows[j].id < rows[i].id}) = n - 1]]

\* SELECT ... FROM dictionary_entries WHERE lemma = ?1 (BINARY collation)
SelectByLemma(rows, term) ==
    Pick(rows, {i \in 1..Len(rows) : rows[i].lemma = term})


\* Database::search_by_lemma: Ok(rows) or Err when prepare/query fails
search_by_lemma(rows, term, fails) ==
    IF fails THEN [ok |-> FALSE, rows |-> <<>>]
    ELSE [ok |-> TRUE, rows |-> SelectByLemma(rows, term)]

\* ASCII case folding of SQLite's LIKE
Fold(c) == Lower(c)

\* SQLite LIKE: '%' matches any run of characters, '_' any one character,
\* letters match without regard to case
RECURSIVE Like(_, _)
Like(pat, s) ==
    IF Len(pat) = 0 THEN Len(s) = 0
    ELSE IF pat[1] = "%"
         THEN \E k \in 0..Len(s) : Like(Tail(pat), SubSeq(s, k + 1, Len(s)))
    ELSE IF Len(s) = 0 THEN FALSE
    ELSE IF pat[1] = "_" THEN Like(Tail(pat), Tail(s))
    ELSE Fold(pat[1]) = Fold(s[1]) /\ Like(Tail(pat), Tail(s))

\* SELECT DISTINCT lemma ... WHERE lemma LIKE ?1 || '%' LIMIT ?2, rows taken
\* in storage order
SelectByPrefix(rows, prefix, limit) ==
    LET RECURSIVE sel(_, _)
        sel(s, acc) ==
            IF Len(s) = 0 \/ Len(acc) >= limit THEN acc
            ELSE IF Like(prefix \o <<"%">>, s[1].lemma)
                    /\ \A i \in 1..Len(acc) : acc[i] # s[1].lemma
                 THEN sel(Tail(s), Append(acc, s[1].lemma))
                 ELSE sel(Tail(s), acc)
    IN  sel(rows, <<>>)

\* Database::search_by_prefix
search_by_prefix(rows, prefix, limit, fails) ==
    IF fails THEN [ok |-> FALSE, rows |-> <<>>]
    ELSE [ok |-> TRUE, rows |-> SelectByPrefix(rows, prefix, limit)]

\* Database::get_stats: COUNT(*) and COUNT(DISTINCT lemma)
db_get_stats(rows, fails) ==
    IF fails THEN [ok |-> FALSE, total_entries |-> 0, unique_lemmas |-> 0]
    ELSE [ok |-> TRUE, total_entries |-> Len(rows),
          unique_lemmas |-> Cardinality({rows[i].lemma : i \in 1..Len(rows)})]

\* impl Default for DatabaseStats
DefaultDatabaseStats == [ok |-> TRUE, total_entries |-> 0, unique_lemmas |-> 0]

-----------------------------------------------------------------------------
(* Threads, mutexes *)

Threads == {"t1", "t2"}
NoThread == "none"

\* The three Mutexes: Database.connection, SearchEngine.inflection_map,
\* SearchEngine.stats
Mutexes == {"connection", "inflection_map", "stats"}

\* Mutex::lock succeeds when nobody holds the mutex; the guard is then owned
Free(m) == mutex[m] = NoThread
lock_guard(mx, m, t) == [mx EXCEPT ![m] = t]
\* dropping the guard
drop_guard(mx, m) == [mx EXCEPT ![m] = NoThread]

Held(t) == {m \in Mutexes : mutex[m] = t}

-----------------------------------------------------------------------------
(* SearchEngine::search, the pure parts *)

\* search_engine.rs:86
normalize(raw) == to_lowercase(trim(raw))

\* get_search_lemmas: the candidate list and the found flag
get_search_lemmas(map, term) ==
    IF term \in DOMAIN map
    THEN [lemmas |-> [i \in 1..Len(map[term]) |-> map[term][i][1]], found |-> TRUE]
    ELSE [lemmas |-> <<term>>, found |-> FALSE]

\* Variant: only the first pair of the list is returned
get_inflections_first(map, word) ==
    IF word \in DOMAIN map THEN SubSeq(map[word], 1, 1) ELSE <<>>

\* search_engine.rs:200-203  get(..).cloned().unwrap_or_else(Vec::new)
get_inflections(map, word) ==
    IF word \in DOMAIN map THEN map[word] ELSE <<>>

\* Variant: the increment writes back a value read before another call's
\* increment (the counter was read as zero)
count_total_stale(st) == [st EXCEPT !.total_searches = 1]

\* stats.total_searches += 1
count_total(st) == [st EXCEPT !.total_searches = @ + 1]

\* Variant: one increment per candidate pair
count_inflection_per_lemma(st, lemma_tags) ==
    [st EXCEPT !.inflection_lookups = @ + Len(lemma_tags)]

\* stats.inflection_lookups += 1, once per expansion
count_inflection(st, lemma_tags) == [st EXCEPT !.inflection_lookups = @ + 1]

\* Variant: the direct search is counted as a cache hit as well
count_direct_as_cache_hit(st) ==
    [st EXCEPT !.direct_lookups = @ + 1, !.cache_hits = @ + 1]

\* stats.direct_lookups += 1
count_direct(st) == [st EXCEPT !.direct_lookups = @ + 1]

\* Variant: the rows of a lookup replace what was gathered before
on_lookup_overwrite(loc, lemma, outcome) ==
    IF outcome.ok /\ outcome.rows # <<>>
    THEN [loc EXCEPT !.searched_terms = Append(@, lemma),
                     !.all_entries = outcome.rows]
    ELSE loc

\* Variant: a failed lookup ends the loop
on_lookup_break(loc, lemma, outcome) ==
    IF outcome.ok /\ outcome.rows # <<>>
    THEN [loc EXCEPT !.searched_terms = Append(@, lemma),
                     !.all_entries = @ \o outcome.rows]
    ELSE IF ~outcome.ok THEN [loc EXCEPT !.lemmas = <<>>]
    ELSE loc

\* Variant: the lemma of every answered lookup is recorded, rows or not
on_lookup_recording_empty(loc, lemma, outcome) ==
    IF outcome.ok
    THEN [loc EXCEPT !.searched_terms = Append(@, lemma),
                     !.all_entries = @ \o outcome.rows]
    ELSE loc

\* Variant: a failed lookup is tried once more
on_lookup_retrying(loc, lemma, outcome) ==
    IF outcome.ok /\ outcome.rows # <<>>
    THEN [loc EXCEPT !.searched_terms = Append(@, lemma),
                     !.all_entries = @ \o outcome.rows]
    ELSE IF ~outcome.ok /\ (loc.log = <<>> \/ loc.log[Len(loc.log)].lemma # lemma)
    THEN [loc EXCEPT !.lemmas = <<lemma>> \o @]
    ELSE loc

\* Variant: a lemma already recorded is not recorded again
on_lookup_recording_once(loc, lemma, outcome) ==
    IF outcome.ok /\ outcome.rows # <<>>
    THEN [loc EXCEPT !.searched_terms =
                        IF \E i \in 1..Len(@) : @[i] = lemma THEN @ ELSE Append(@, lemma),
                     !.all_entries = @ \o outcome.rows]
    ELSE loc

\* The match on the outcome of one lookup (loop and direct search alike):
\* Ok with rows records the lemma and appends the rows; Ok without rows and
\* Err (logged) change nothing.
on_lookup(loc, lemma, outcome) ==
    IF outcome.ok /\ outcome.rows # <<>>
    THEN [loc EXCEPT !.searched_terms = Append(@, lemma),
                     !.all_entries = @ \o outcome.rows]
    ELSE loc

\* Variant: the direct search after every loop
needs_direct_always(all_entries, found_inflections) == TRUE

\* Variant: the direct search whenever no mapping was found
needs_direct_ignoring_entries(all_entries, found_inflections) ==
    ~found_inflections

\* Variant: the direct search whenever nothing was gathered
needs_direct_ignoring_flag(all_entries, found_inflections) ==
    all_entries = <<>>

\* search_engine.rs:116
needs_direct(all_entries, found_inflections) ==
    all_entries = <<>> /\ ~found_inflections

\* Variant: the rows stay in the order the lookups delivered them
sort_by_id_skipped(s) == s

\* slice::sort_by(|a, b| a.id.cmp(&b.id)): a stable sort, so the element at
\* position i ends behind the elements of smaller id and behind the earlier
\* elements of equal id
sort_by_id(s) ==
    LET place(i) == 1 + Cardinality({j \in 1..Len(s) :
                            \/ s[j].id < s[i].id
                            \/ s[j].id = s[i].id /\ j < i})
    IN  [k \in 1..Len(s) |-> s[CHOOSE i \in 1..Len(s) : place(i) = k]]

\* Variant: no deduplication
dedup_keep_all(s) == s

\* Vec::dedup_by(|a, b| a.id == b.id): drops every element whose id equals
\* that of the element kept before it, which is the id of its predecessor
dedup_by_id(s) ==
    Pick(s, {i \in 1..Len(s) : i = 1 \/ s[i].id # s[i - 1].id})

\* Variant: the joined list even when it is empty
query_used_always_joined(searched_terms, normalized_term) ==
    join(searched_terms, <<",", " ">>)

\* search_engine.rs:141-145
query_used(searched_terms, normalized_term) ==
    IF searched_terms = <<>> THEN normalized_term
    ELSE join(searched_terms, <<",", " ">>)

\* Variant: the flag says whether the expansion produced entries
search_result_flag_from_hits(loc) ==
    LET entries == dedup_by_id(sort_by_id(loc.all_entries))
    IN  [ok |-> TRUE,
         entries |-> entries,
         total_results |-> Len(entries),
         query_used |-> query_used(loc.searched_terms, loc.term),
         found_inflections |-> loc.found /\ entries # <<>>]

\* Variant: a call that gathered nothing returns an error
search_result_err_on_empty(loc) ==
    LET entries == dedup_by_id(sort_by_id(loc.all_entries))
    IN  [ok |-> entries # <<>>,
         entries |-> entries,
         total_results |-> Len(entries),
         query_used |-> query_used(loc.searched_terms, loc.term),
         found_inflections |-> loc.found]

\* search_engine.rs:134-161: sort, dedup, Ok(SearchResult)
search_result(loc) ==
    LET entries == dedup_by_id(sort_by_id(loc.all_entries))
    IN  [ok |-> TRUE,
         entries |-> entries,
         total_results |-> Len(entries),
         query_used |-> query_used(loc.searched_terms, loc.term),
         found_inflections |-> loc.found]

-----------------------------------------------------------------------------
(* Thread state *)

NoResult == [ok |-> TRUE, kind |-> "none"]
ZeroInc == [total |-> 0, infl |-> 0, direct |-> 0]

\* The locals of a call.  had, pairs, log and inc record what the call did
\* (whether the index held the term when it was looked up and with which
\* pairs, every store lookup with its outcome, the counter increments made);
\* no step of the engine reads them.
IdleThread ==
    [pc |-> "idle", op |-> "none", term |-> <<>>, limit |-> 0,
     lemmas |-> <<>>, all_entries |-> <<>>, searched_terms |-> <<>>,
     found |-> FALSE, result |-> NoResult,
     had |-> FALSE, pairs |-> <<>>, log |-> <<>>, inc |-> ZeroInc]

ZeroStats ==
    [total_searches |-> 0, cache_hits |-> 0,
     inflection_lookups |-> 0, direct_lookups |-> 0]

\* main.rs:392-395  AppState { search_engine: Mutex::new(None), .. }: the
\* slot is empty and nobody holds its guard
EmptySlot == [search_engine |-> "None", guard |-> NoThread]

\* Nothing observed yet: the search calls that have returned (all, those
\* that found a mapping, those that made the direct search), the counters of
\* the last statistics a command reported, the engines installed in the slot
ZeroHist ==
    [searches |-> 0, expanded |-> 0, fellback |-> 0,
     reported |-> ZeroStats, installs |-> 0, via |-> {}]

\* No plugin manager is modelled: no plugin, no directory, no call
NoPlugins == [id \in {} |-> [enabled |-> FALSE, loaded |-> FALSE]]
NoPluginCall == [n |-> 0, op |-> "none", id |-> "none", ok |-> TRUE, before |-> NoPlugins]

\* No source file is under load
NoFile == [content |-> <<>>, kinds |-> <<>>, loaded |-> FALSE]

\* No handle is modelled apart from the engine itself
NoArcs == [stats |-> <<>>, inflection_map |-> <<>>]

\* SearchEngine::new: the store is opened, the index loaded, the counters
\* are SearchStats::default(), no mutex is held.  The engine is used
\* directly, the application's slot plays no part.
Init ==
    /\ store \in Stores
    /\ \E src \in Sources : inflection_map = load_inflection_map(src)
    /\ stats = ZeroStats
    /\ mutex = [m \in Mutexes |-> NoThread]
    /\ th = [t \in Threads |-> IdleThread]
    /\ calls = 0
    /\ app_state = EmptySlot
    /\ hist = ZeroHist
    /\ arcs = NoArcs
    /\ handles = <<>>
    /\ tsv = NoFile
    /\ plugin_manager = NoPlugins
    /\ plugins_dir = NoPlugins
    /\ plugin_call = NoPluginCall

At(t, pc) == th[t].pc = pc
Goto(t, loc, pc) == th' = [th EXCEPT ![t] = [loc EXCEPT !.pc = pc]]

\* Variant: get_stats reaches for the index, not the connection, while it
\* holds the counters
wants_inverted(pc) ==
    CASE pc = "s_total_lock"  -> "stats"
      [] pc = "s_index_lock"  -> "inflection_map"
      [] pc = "s_infl_lock"   -> "stats"
      [] pc = "s_loop_lock"   -> "connection"
      [] pc = "s_direct_lock" -> "connection"
      [] pc = "s_dstat_lock"  -> "stats"
      [] pc = "g_lock"        -> "connection"
      [] pc = "i_lock"        -> "inflection_map"
      [] pc = "st_lock"       -> "stats"
      [] pc = "st_db_lock"    -> "inflection_map"
      [] pc = "sh_db_lock"    -> "connection"
      [] pc = "sh_index_lock" -> "inflection_map"
      [] pc = "sh_stats_lock" -> "stats"
      [] OTHER -> "none"

\* The mutex a thread at this position is about to lock, "none" elsewhere:
\* search_engine.rs:90, 165, 170, 130, 198, 207, 228, 234 and, inside the
\* Database methods, database.rs:50, 80, 103, 126
wants(pc) ==
    CASE pc = "s_total_lock"  -> "stats"
      [] pc = "s_index_lock"  -> "inflection_map"
      [] pc = "s_infl_lock"   -> "stats"
      [] pc = "s_loop_lock"   -> "connection"
      [] pc = "s_direct_lock" -> "connection"
      [] pc = "s_dstat_lock"  -> "stats"
      [] pc = "g_lock"        -> "connection"
      [] pc = "i_lock"        -> "inflection_map"
      [] pc = "st_lock"       -> "stats"
      [] pc = "st_db_lock"    -> "connection"
      [] pc = "sh_db_lock"    -> "connection"
      [] pc = "sh_index_lock" -> "inflection_map"
      [] pc = "sh_stats_lock" -> "stats"
      [] OTHER -> "none"

\* Mutex::lock().unwrap() at position pc: the thread goes on, owning the
\* guard, once the mutex is free
Lock(t, pc, next) ==
    /\ At(t, pc)
    /\ Free(wants(pc))
    /\ mutex' = lock_guard(mutex, wants(pc), t)
    /\ Goto(t, th[t], next)
    /\ UNCHANGED <<store, inflection_map, stats, calls, app_state, hist, arcs, handles, tsv, plugin_manager, plugins_dir, plugin_call>>

\* The counter increments of one step, added to the call's record
AddInc(inc, old, new) ==
    [total |-> inc.total + (new.total_searches - old.total_searches),
     infl |-> inc.infl + (new.inflection_lookups - old.inflection_lookups),
     direct |-> inc.direct + (new.direct_lookups - old.direct_lookups)]

LogEntry(lemma, phase, outcome) ==
    [lemma |-> lemma, phase |-> phase, ok |-> outcome.ok, rows |-> outcome.rows]

-----------------------------------------------------------------------------
(* SearchEngine::search, step by step *)

\* search_engine.rs:101  for lemma in search_lemmas: the next lookup, or the
\* end of the loop
LoopHead(lemmas) == IF lemmas # <<>> THEN "s_loop_lock" ELSE "s_loop_exit"

\* The end of search once no lookup is left: search_engine.rs:134-161
Finish(loc) == [loc EXCEPT !.result = search_result(loc), !.pc = "done"]

\* A caller invokes search(term) on its handle.
CallSearch(t) ==
    /\ At(t, "idle")
    /\ calls < MaxCalls
    /\ calls' = calls + 1
    /\ \E raw \in RawTerms :
         Goto(t, [IdleThread EXCEPT !.op = "search", !.term = normalize(raw)],
              "s_total_lock")
    /\ UNCHANGED <<store, inflection_map, stats, mutex, app_state, hist, arcs, handles, tsv, plugin_manager, plugins_dir, plugin_call>>

\* search_engine.rs:90  let mut stats = self.stats.lock().unwrap();
SearchLockTotal(t) == Lock(t, "s_total_lock", "s_total")

\* search_engine.rs:91-92  stats.total_searches += 1; drop(stats);
SearchCountTotal(t) ==
    /\ At(t, "s_total")
    /\ stats' = count_total(stats)
    /\ mutex' = drop_guard(mutex, "stats")
    /\ Goto(t, [th[t] EXCEPT !.inc = AddInc(@, stats, stats')], "s_index_lock")
    /\ UNCHANGED <<store, inflection_map, calls, app_state, hist, arcs, handles, tsv, plugin_manager, plugins_dir, plugin_call>>

\* search_engine.rs:165  let inflections = self.inflection_map.lock().unwrap();
LemmasLockIndex(t) == Lock(t, "s_index_lock", "s_index")

\* search_engine.rs:167, 180-183: inflections.get(term).  With no mapping the
\* function returns ([term], false) and the index guard is dropped; with a
\* mapping the guard stays while the counters are locked.
LemmasGet(t) ==
    /\ At(t, "s_index")
    /\ LET r == get_search_lemmas(inflection_map, th[t].term)
           loc == [th[t] EXCEPT !.had = th[t].term \in DOMAIN inflection_map,
                                !.pairs = get_inflections(inflection_map, th[t].term)]
       IN  IF r.found
           THEN /\ Goto(t, loc, "s_infl_lock")
                /\ UNCHANGED mutex
           ELSE /\ Goto(t, [loc EXCEPT !.lemmas = r.lemmas, !.found = r.found],
                        LoopHead(r.lemmas))
                /\ mutex' = drop_guard(mutex, "inflection_map")
    /\ UNCHANGED <<store, inflection_map, stats, calls, app_state, hist, arcs, handles, tsv, plugin_manager, plugins_dir, plugin_call>>

\* search_engine.rs:170  let mut stats = self.stats.lock().unwrap();
\* (the index guard is still alive)
LemmasLockStats(t) == Lock(t, "s_infl_lock", "s_infl")

\* Variant: the pairs are moved out of the index (HashMap::remove)
LemmasCount_taking(t) ==
    /\ At(t, "s_infl")
    /\ LET r == get_search_lemmas(inflection_map, th[t].term)
       IN  /\ stats' = count_inflection(stats, inflection_map[th[t].term])
           /\ Goto(t, [th[t] EXCEPT !.lemmas = r.lemmas, !.found = r.found,
                                    !.inc = AddInc(@, stats, stats')],
                    LoopHead(r.lemmas))
    /\ mutex' = drop_guard(drop_guard(mutex, "stats"), "inflection_map")
    /\ inflection_map' = [x \in DOMAIN inflection_map \ {th[t].term} |-> inflection_map[x]]
    /\ UNCHANGED <<store, calls, app_state, hist, arcs, handles, tsv, plugin_manager, plugins_dir, plugin_call>>

\* search_engine.rs:171-179  inflection_lookups += 1; drop(stats); the lemmas
\* are collected and both guards are gone when the function returns.
LemmasCount(t) ==
    /\ At(t, "s_infl")
    /\ LET r == get_search_lemmas(inflection_map, th[t].term)
       IN  /\ stats' = count_inflection(stats, inflection_map[th[t].term])
           /\ Goto(t, [th[t] EXCEPT !.lemmas = r.lemmas, !.found = r.found,
                                    !.inc = AddInc(@, stats, stats')],
                    LoopHead(r.lemmas))
    /\ mutex' = drop_guard(drop_guard(mutex, "stats"), "inflection_map")
    /\ UNCHANGED <<store, inflection_map, calls, app_state, hist, arcs, handles, tsv, plugin_manager, plugins_dir, plugin_call>>

\* search_engine.rs:101-102: the next candidate; search_by_lemma locks the
\* connection (database.rs:50)
LoopLockConn(t) == Lock(t, "s_loop_lock", "s_query")

\* database.rs:51-75 and search_engine.rs:102-112: the query runs or fails,
\* the connection guard is dropped, the match updates the locals.
LoopQuery(t) ==
    /\ At(t, "s_query")
    /\ \E fails \in BOOLEAN :
         LET lemma == Head(th[t].lemmas)
             outcome == search_by_lemma(store, lemma, fails)
             loc == on_lookup([th[t] EXCEPT !.lemmas = Tail(@)], lemma, outcome)
         IN  Goto(t, [loc EXCEPT !.log = Append(@, LogEntry(lemma, "loop", outcome))],
                  LoopHead(loc.lemmas))
    /\ mutex' = drop_guard(mutex, "connection")
    /\ UNCHANGED <<store, inflection_map, stats, calls, app_state, hist, arcs, handles, tsv, plugin_manager, plugins_dir, plugin_call>>

\* search_engine.rs:113-116: the loop is over; the direct search is tried or
\* the result is built.
LoopExit(t) ==
    /\ At(t, "s_loop_exit")
    /\ th' = [th EXCEPT ![t] =
                IF needs_direct(th[t].all_entries, th[t].found)
                THEN [th[t] EXCEPT !.pc = "s_direct_lock"]
                ELSE Finish(th[t])]
    /\ UNCHANGED <<store, inflection_map, stats, mutex, calls, app_state, hist, arcs, handles, tsv, plugin_manager, plugins_dir, plugin_call>>

\* search_engine.rs:118 -> database.rs:50
DirectLockConn(t) == Lock(t, "s_direct_lock", "s_direct")

\* search_engine.rs:118-128
DirectQuery(t) ==
    /\ At(t, "s_direct")
    /\ \E fails \in BOOLEAN :
         LET outcome == search_by_lemma(store, th[t].term, fails)
             loc == on_lookup(th[t], th[t].term, outcome)
         IN  Goto(t, [loc EXCEPT !.log = Append(@, LogEntry(th[t].term, "direct", outcome))],
                  "s_dstat_lock")
    /\ mutex' = drop_guard(mutex, "connection")
    /\ UNCHANGED <<store, inflection_map, stats, calls, app_state, hist, arcs, handles, tsv, plugin_manager, plugins_dir, plugin_call>>

\* search_engine.rs:130  let mut stats = self.stats.lock().unwrap();
DirectLockStats(t) == Lock(t, "s_dstat_lock", "s_dstat")

\* search_engine.rs:131-161  direct_lookups += 1; the guard ends with the
\* block; the result is built.
DirectCount(t) ==
    /\ At(t, "s_dstat")
    /\ stats' = count_direct(stats)
    /\ mutex' = drop_guard(mutex, "stats")
    /\ th' = [th EXCEPT ![t] = Finish([th[t] EXCEPT !.inc = AddInc(@, stats, stats')])]
    /\ UNCHANGED <<store, inflection_map, calls, app_state, hist, arcs, handles, tsv, plugin_manager, plugins_dir, plugin_call>>

\* What a returned call adds to the observations: a search is counted with
\* what it did; the counters of a statistics command become the last ones
\* reported.
observe(h, loc, command) ==
    IF loc.op = "search" /\ loc.log # <<>>
    THEN [h EXCEPT !.searches = @ + 1,
                   !.expanded = @ + (IF loc.had THEN 1 ELSE 0),
                   !.fellback = @ + (IF \E i \in 1..Len(loc.log) : loc.log[i].phase = "direct"
                                     THEN 1 ELSE 0)]
    ELSE IF loc.op = "get_stats" /\ command /\ loc.result.kind = "stats"
    THEN [h EXCEPT !.reported =
            [total_searches |-> loc.result.total_searches,
             cache_hits |-> loc.result.cache_hits,
             inflection_lookups |-> loc.result.inflection_lookups,
             direct_lookups |-> loc.result.direct_lookups]]
    ELSE h

\* The call has returned; the caller takes the result.  A command of the
\* application drops the guard of the slot when it returns (main.rs:88, 112,
\* 138, 148, 300: the guard lives to the end of the function).
Return(t) ==
    /\ At(t, "done")
    /\ th' = [th EXCEPT ![t] = IdleThread]
    /\ app_state' = IF app_state.guard = t
                    THEN [app_state EXCEPT !.guard = NoThread]
                    ELSE app_state
    /\ hist' = observe(hist, th[t], app_state.guard = t)
    /\ UNCHANGED <<store, inflection_map, stats, mutex, calls, arcs, handles, tsv, plugin_manager, plugins_dir, plugin_call>>

-----------------------------------------------------------------------------
(* SearchEngine::get_suggestions *)

Prefixes == { <<>>, <<"S">>, <<SP, "r", "U">>, <<"_", "a">>, <<"%", "n">> }
Limits == {0, 1, 2}

CallSuggestions(t) ==
    /\ At(t, "idle")
    /\ calls < MaxCalls
    /\ calls' = calls + 1
    /\ \E prefix \in Prefixes, limit \in Limits :
         Goto(t, [IdleThread EXCEPT !.op = "get_suggestions",
                                    !.term = normalize(prefix), !.limit = limit],
              "g_lock")
    /\ UNCHANGED <<store, inflection_map, stats, mutex, app_state, hist, arcs, handles, tsv, plugin_manager, plugins_dir, plugin_call>>

\* database.rs:80  let conn = self.connection.lock().unwrap();
SuggestLockConn(t) == Lock(t, "g_lock", "g_query")

\* database.rs:81-97, search_engine.rs:190-193: the `?` hands an Err on
SuggestQuery(t) ==
    /\ At(t, "g_query")
    /\ \E fails \in BOOLEAN :
         LET outcome == search_by_prefix(store, th[t].term, th[t].limit, fails)
         IN  Goto(t, [th[t] EXCEPT !.result = [ok |-> outcome.ok, kind |-> "suggestions",
                                               words |-> outcome.rows]], "done")
    /\ mutex' = drop_guard(mutex, "connection")
    /\ UNCHANGED <<store, inflection_map, stats, calls, app_state, hist, arcs, handles, tsv, plugin_manager, plugins_dir, plugin_call>>

-----------------------------------------------------------------------------
(* SearchEngine::get_inflections *)

CallInflections(t) ==
    /\ At(t, "idle")
    /\ calls < MaxCalls
    /\ calls' = calls + 1
    /\ \E word \in RawTerms :
         Goto(t, [IdleThread EXCEPT !.op = "get_inflections", !.term = normalize(word)],
              "i_lock")
    /\ UNCHANGED <<store, inflection_map, stats, mutex, app_state, hist, arcs, handles, tsv, plugin_manager, plugins_dir, plugin_call>>

\* search_engine.rs:198
InflectionsLockIndex(t) == Lock(t, "i_lock", "i_get")

\* Variant: the pairs are taken out of the index (HashMap::remove)
InflectionsGet_removing(t) ==
    /\ At(t, "i_get")
    /\ Goto(t, [th[t] EXCEPT !.result = [ok |-> TRUE, kind |-> "inflections",
                                         pairs |-> get_inflections(inflection_map, th[t].term)]],
            "done")
    /\ mutex' = drop_guard(mutex, "inflection_map")
    /\ inflection_map' = [x \in DOMAIN inflection_map \ {th[t].term} |-> inflection_map[x]]
    /\ UNCHANGED <<store, stats, calls, app_state, hist, arcs, handles, tsv, plugin_manager, plugins_dir, plugin_call>>

\* Variant: a word the index holds counts as an inflection lookup
InflectionsGet_counting(t) ==
    /\ At(t, "i_get")
    /\ Goto(t, [th[t] EXCEPT !.result = [ok |-> TRUE, kind |-> "inflections",
                                         pairs |-> get_inflections(inflection_map, th[t].term)]],
            "done")
    /\ mutex' = drop_guard(mutex, "inflection_map")
    /\ stats' = IF th[t].term \in DOMAIN inflection_map
                THEN count_inflection(stats, inflection_map[th[t].term])
                ELSE stats
    /\ UNCHANGED <<store, inflection_map, calls, app_state, hist, arcs, handles, tsv, plugin_manager, plugins_dir, plugin_call>>

\* search_engine.rs:200-203: the guard is read through and dropped on return
InflectionsGet(t) ==
    /\ At(t, "i_get")
    /\ Goto(t, [th[t] EXCEPT !.result = [ok |-> TRUE, kind |-> "inflections",
                                         pairs |-> get_inflections(inflection_map, th[t].term)]],
            "done")
    /\ mutex' = drop_guard(mutex, "inflection_map")
    /\ UNCHANGED <<store, inflection_map, stats, calls, app_state, hist, arcs, handles, tsv, plugin_manager, plugins_dir, plugin_call>>

-----------------------------------------------------------------------------
(* SearchEngine::get_stats *)

CallStats(t) ==
    /\ At(t, "idle")
    /\ calls < MaxCalls
    /\ calls' = calls + 1
    /\ Goto(t, [IdleThread EXCEPT !.op = "get_stats"], "st_lock")
    /\ UNCHANGED <<store, inflection_map, stats, mutex, app_state, hist, arcs, handles, tsv, plugin_manager, plugins_dir, plugin_call>>

\* search_engine.rs:207  let stats = self.stats.lock().unwrap();
StatsLockStats(t) == Lock(t, "st_lock", "st_db_lock")

\* search_engine.rs:208 -> database.rs:103 (the counters guard is alive)
StatsLockConn(t) == Lock(t, "st_db_lock", "st_read")

\* database.rs:105-120, search_engine.rs:208-217: unwrap_or_default() turns a
\* failed count into zeros; both guards are dropped on return.
StatsRead(t) ==
    /\ At(t, "st_read")
    /\ \E fails \in BOOLEAN :
         LET r == db_get_stats(store, fails)
             db == IF r.ok THEN r ELSE DefaultDatabaseStats
         IN  Goto(t, [th[t] EXCEPT !.result =
                        [ok |-> TRUE, kind |-> "stats",
                         total_searches |-> stats.total_searches,
                         cache_hits |-> stats.cache_hits,
                         inflection_lookups |-> stats.inflection_lookups,
                         direct_lookups |-> stats.direct_lookups,
                         total_dictionary_entries |-> db.total_entries,
                         unique_lemmas |-> db.unique_lemmas]], "done")
    /\ mutex' = drop_guard(drop_guard(mutex, wants("st_db_lock")), "stats")
    /\ UNCHANGED <<store, inflection_map, stats, calls, app_state, hist, arcs, handles, tsv, plugin_manager, plugins_dir, plugin_call>>

-----------------------------------------------------------------------------
(* SearchEngine::cleanup_and_shutdown *)

CallShutdown(t) ==
    /\ At(t, "idle")
    /\ calls < MaxCalls
    /\ calls' = calls + 1
    /\ Goto(t, [IdleThread EXCEPT !.op = "cleanup_and_shutdown"], "sh_db_lock")
    /\ UNCHANGED <<store, inflection_map, stats, mutex, app_state, hist, arcs, handles, tsv, plugin_manager, plugins_dir, plugin_call>>

\* search_engine.rs:224 -> database.rs:126
ShutdownLockConn(t) == Lock(t, "sh_db_lock", "sh_db")

\* Variant: the connection guard outlives cleanup_and_close
after_cleanup_and_close_keeping_guard(mx) == mx

\* The mutexes after Database::cleanup_and_close has returned: its guard is
\* gone (database.rs:146)
after_cleanup_and_close(mx) == drop_guard(mx, "connection")

\* Variant: a failed checkpoint is returned as Err and the `?` of
\* cleanup_and_shutdown hands it on
ShutdownCheckpoint_propagating(t) ==
    /\ At(t, "sh_db")
    /\ \E fails \in BOOLEAN :
         LET loc == [th[t] EXCEPT !.log = Append(@, [lemma |-> <<>>, phase |-> "checkpoint",
                                                    ok |-> ~fails, rows |-> <<>>])]
         IN  IF fails
             THEN Goto(t, [loc EXCEPT !.result = [ok |-> FALSE, kind |-> "shutdown",
                                                  logged |-> ZeroStats]], "done")
             ELSE Goto(t, loc, "sh_index_lock")
    /\ mutex' = after_cleanup_and_close(mutex)
    /\ UNCHANGED <<store, inflection_map, stats, calls, app_state, hist, arcs, handles, tsv, plugin_manager, plugins_dir, plugin_call>>

\* database.rs:128-146: the checkpoint and the cache flush may fail, which is
\* logged; Ok(()) either way.
ShutdownCheckpoint(t) ==
    /\ At(t, "sh_db")
    /\ \E fails \in BOOLEAN :
         Goto(t, [th[t] EXCEPT !.log = Append(@, [lemma |-> <<>>, phase |-> "checkpoint",
                                                 ok |-> ~fails, rows |-> <<>>])],
              "sh_index_lock")
    /\ mutex' = after_cleanup_and_close(mutex)
    /\ UNCHANGED <<store, inflection_map, stats, calls, app_state, hist, arcs, handles, tsv, plugin_manager, plugins_dir, plugin_call>>

\* search_engine.rs:228
ShutdownLockIndex(t) == Lock(t, "sh_index_lock", "sh_index")

\* What cleanup_and_shutdown has done so far, for the call's record
Phase(phase) == [lemma |-> <<>>, phase |-> phase, ok |-> TRUE, rows |-> <<>>]

\* Variant: no inner block, the index guard lives to the end of the function
ShutdownClear_keeping_guard(t) ==
    /\ At(t, "sh_index")
    /\ inflection_map' = EmptyMap
    /\ UNCHANGED mutex
    /\ Goto(t, [th[t] EXCEPT !.log = Append(@, Phase("clear"))], "sh_stats_lock")
    /\ UNCHANGED <<store, stats, calls, app_state, hist, arcs, handles, tsv, plugin_manager, plugins_dir, plugin_call>>

\* Variant: the index is locked and left as it is
ShutdownClear_keeping_index(t) ==
    /\ At(t, "sh_index")
    /\ mutex' = drop_guard(mutex, "inflection_map")
    /\ Goto(t, [th[t] EXCEPT !.log = Append(@, Phase("clear"))], "sh_stats_lock")
    /\ UNCHANGED <<store, inflection_map, stats, calls, app_state, hist, arcs, handles, tsv, plugin_manager, plugins_dir, plugin_call>>

\* search_engine.rs:229-231  inflections.clear(); the block ends
ShutdownClear(t) ==
    /\ At(t, "sh_index")
    /\ inflection_map' = EmptyMap
    /\ mutex' = drop_guard(mutex, "inflection_map")
    /\ Goto(t, [th[t] EXCEPT !.log = Append(@, Phase("clear"))], "sh_stats_lock")
    /\ UNCHANGED <<store, stats, calls, app_state, hist, arcs, handles, tsv, plugin_manager, plugins_dir, plugin_call>>

\* search_engine.rs:234
ShutdownLockStats(t) == Lock(t, "sh_stats_lock", "sh_stats")

\* search_engine.rs:235-240: the final counters are logged; Ok(())
ShutdownLogStats(t) ==
    /\ At(t, "sh_stats")
    /\ Goto(t, [th[t] EXCEPT !.result = [ok |-> TRUE, kind |-> "shutdown",
                                         logged |-> stats],
                             !.log = Append(@, Phase("stats"))], "done")
    /\ mutex' = drop_guard(mutex, "stats")
    /\ UNCHANGED <<store, inflection_map, stats, calls, app_state, hist, arcs, handles, tsv, plugin_manager, plugins_dir, plugin_call>>

-----------------------------------------------------------------------------
(* The engine *)

Call(t) ==
    \/ CallSearch(t)
    \/ CallSuggestions(t)
    \/ CallInflections(t)
    \/ CallStats(t)
    \/ CallShutdown(t)

\* The steps of thread t inside the engine, up to the return of its call
Step(t) ==
    \/ SearchLockTotal(t)
    \/ SearchCountTotal(t)
    \/ LemmasLockIndex(t)
    \/ LemmasGet(t)
    \/ LemmasLockStats(t)
    \/ LemmasCount(t)
    \/ LoopLockConn(t)
    \/ LoopQuery(t)
    \/ LoopExit(t)
    \/ DirectLockConn(t)
    \/ DirectQuery(t)
    \/ DirectLockStats(t)
    \/ DirectCount(t)
    \/ SuggestLockConn(t)
    \/ SuggestQuery(t)
    \/ InflectionsLockIndex(t)
    \/ InflectionsGet(t)
    \/ StatsLockStats(t)
    \/ StatsLockConn(t)
    \/ StatsRead(t)
    \/ ShutdownLockConn(t)
    \/ ShutdownCheckpoint(t)
    \/ ShutdownLockIndex(t)
    \/ ShutdownClear(t)
    \/ ShutdownLockStats(t)
    \/ ShutdownLogStats(t)
    \/ Return(t)

Next == \E t \in Threads : Call(t) \/ Step(t)

Spec == Init /\ [][Next]_vars

\* Every thread that can take a step of its call eventually takes one.
FairSpec == Spec /\ \A t \in Threads : WF_vars(Step(t))

-----------------------------------------------------------------------------
(* The application: main.rs.  The engine lives in AppState.search_engine, a  *)
(* Mutex<Option<SearchEngine>>; every command locks the slot and calls the   *)
(* engine, if there is one, while it holds the guard.                        *)

\* Commands invoked in one behaviour of the application
MaxCommands == 5

\* What the window sends
AppTerms == { <<SP, "R", "a", "n", SP>>, w_xy }
AppPrefixes == { <<"S">> }
\* get_suggestions' limit is an Option<usize>: None is <<>>, Some(n) is <<n>>
AppLimits == { <<>>, <<1>> }
\* main.rs:113  limit.unwrap_or(10)
unwrap_or_10(limit) == IF limit = <<>> THEN 10 ELSE limit[1]

\* "Search engine not initialized"
NotInitialized == [ok |-> FALSE, kind |-> "not_initialized"]

\* main.rs:59-83: the two exists() checks, then SearchEngine::new, which
\* opens the store (database.rs:27-37) and reads the inflection source
\* (search_engine.rs:58); the first failure decides
initialize_outcome(db_exists, tsv_exists, db_opens, tsv_reads) ==
    IF ~db_exists THEN "database_file_not_found"
    ELSE IF ~tsv_exists THEN "inflection_file_not_found"
    ELSE IF ~db_opens \/ ~tsv_reads THEN "failed_to_initialize"
    ELSE "ok"

\* Variant: a failed construction empties the slot
slot_after_new_clearing(search_engine, outcome) ==
    IF outcome = "ok" THEN "Some" ELSE "None"

\* main.rs:71-83: Ok(engine) is stored in the slot, Err leaves the slot alone
slot_after_new(search_engine, outcome) ==
    IF outcome = "ok" THEN "Some" ELSE search_engine

\* Variant: the guard of the slot is dropped before the engine is called
Command_dropping_guard(t, loc, pc) ==
    /\ At(t, "idle")
    /\ calls < MaxCommands
    /\ app_state.guard = NoThread
    /\ calls' = calls + 1
    /\ IF app_state.search_engine = "Some"
       THEN Goto(t, loc, pc)
       ELSE Goto(t, [loc EXCEPT !.result = NotInitialized], "done")
    /\ UNCHANGED <<store, inflection_map, stats, mutex, app_state, hist, arcs, handles, tsv, plugin_manager, plugins_dir, plugin_call>>

\* A command that needs the engine: main.rs:88-102, 112-133, 138-143, 148-153.
\* It locks the slot; with an engine it calls it (loc, pc), the guard alive;
\* without, it returns the error.
Command(t, loc, pc) ==
    /\ At(t, "idle")
    /\ calls < MaxCommands
    /\ app_state.guard = NoThread
    /\ calls' = calls + 1
    /\ IF app_state.search_engine = "Some"
       THEN /\ Goto(t, loc, pc)
            /\ app_state' = [app_state EXCEPT !.guard = t]
       ELSE /\ Goto(t, [loc EXCEPT !.result = NotInitialized], "done")
            /\ UNCHANGED app_state
    /\ UNCHANGED <<store, inflection_map, stats, mutex, hist, arcs, handles, tsv, plugin_manager, plugins_dir, plugin_call>>

\* main.rs:26-70: the paths are checked and the engine is built before the
\* slot is locked; a missing file returns at once.
initialize_search_engine(t) ==
    /\ At(t, "idle")
    /\ calls < MaxCommands
    /\ calls' = calls + 1
    /\ \E db_exists, tsv_exists, db_opens, tsv_reads \in BOOLEAN, src \in Sources :
         LET outcome == initialize_outcome(db_exists, tsv_exists, db_opens, tsv_reads)
             loc == [IdleThread EXCEPT !.op = "initialize_search_engine"]
         IN  IF db_exists /\ tsv_exists
             THEN Goto(t, [loc EXCEPT !.result =
                             [ok |-> outcome = "ok", kind |-> outcome,
                              map |-> IF outcome = "ok" THEN load_inflection_map(src)
                                      ELSE EmptyMap]],
                       "init_match")
             ELSE Goto(t, [loc EXCEPT !.result = [ok |-> FALSE, kind |-> outcome]], "done")
    /\ UNCHANGED <<store, inflection_map, stats, mutex, app_state, hist, arcs, handles, tsv, plugin_manager, plugins_dir, plugin_call>>

\* main.rs:71-83: the match on SearchEngine::new.  Ok: the slot is locked,
\* the new engine (its index, counters at zero) replaces what the slot held,
\* the guard is dropped.  Err: the message is returned.
InitializeMatch(t) ==
    /\ At(t, "init_match")
    /\ th[t].result.ok => app_state.guard = NoThread
    /\ app_state' = [app_state EXCEPT
                       !.search_engine = slot_after_new(@, th[t].result.kind)]
    /\ IF th[t].result.ok
       THEN /\ inflection_map' = th[t].result.map
            /\ stats' = ZeroStats
            /\ hist' = [hist EXCEPT !.installs = @ + 1]
            /\ Goto(t, [th[t] EXCEPT !.result = [ok |-> TRUE, kind |-> "initialized"]], "done")
       ELSE /\ UNCHANGED <<inflection_map, stats, hist>>
            /\ Goto(t, [th[t] EXCEPT !.result = [ok |-> FALSE, kind |-> th[t].result.kind]],
                    "done")
    /\ UNCHANGED <<store, mutex, calls, arcs, handles, tsv, plugin_manager, plugins_dir, plugin_call>>

\* main.rs:86-103
search_dictionary(t) ==
    \E term \in AppTerms :
        Command(t, [IdleThread EXCEPT !.op = "search", !.term = normalize(term)],
                "s_total_lock")

\* main.rs:110-134
get_suggestions(t) ==
    \E prefix \in AppPrefixes, limit \in AppLimits :
        Command(t, [IdleThread EXCEPT !.op = "get_suggestions",
                                      !.term = normalize(prefix),
                                      !.limit = unwrap_or_10(limit)],
                "g_lock")

\* main.rs:136-144
get_inflections_command(t) ==
    \E word \in AppTerms :
        Command(t, [IdleThread EXCEPT !.op = "get_inflections", !.term = normalize(word)],
                "i_lock")

\* main.rs:146-154
get_search_stats(t) ==
    Command(t, [IdleThread EXCEPT !.op = "get_stats"], "st_lock")

\* Variant: the engine is borrowed (as_ref) and stays in the slot
quit_app_keeping_engine(t) ==
    /\ At(t, "idle")
    /\ calls < MaxCommands
    /\ app_state.guard = NoThread
    /\ calls' = calls + 1
    /\ IF app_state.search_engine = "Some"
       THEN /\ Goto(t, [IdleThread EXCEPT !.op = "cleanup_and_shutdown"], "sh_db_lock")
            /\ app_state' = [app_state EXCEPT !.guard = t]
       ELSE /\ Goto(t, [IdleThread EXCEPT !.op = "quit_app",
                                          !.result = [ok |-> TRUE, kind |-> "quit"]], "done")
            /\ UNCHANGED app_state
    /\ UNCHANGED <<store, inflection_map, stats, mutex, hist, arcs, handles, tsv, plugin_manager, plugins_dir, plugin_call>>

\* main.rs:295-322: the slot is locked and the engine taken out of it; if
\* there was one, cleanup_and_shutdown runs on it while the guard is alive.
quit_app(t) ==
    /\ At(t, "idle")
    /\ calls < MaxCommands
    /\ app_state.guard = NoThread
    /\ calls' = calls + 1
    /\ IF app_state.search_engine = "Some"
       THEN /\ Goto(t, [IdleThread EXCEPT !.op = "cleanup_and_shutdown"], "sh_db_lock")
            /\ app_state' = [search_engine |-> "None", guard |-> t]
       ELSE /\ Goto(t, [IdleThread EXCEPT !.op = "quit_app",
                                          !.result = [ok |-> TRUE, kind |-> "quit"]], "done")
            /\ UNCHANGED app_state
    /\ UNCHANGED <<store, inflection_map, stats, mutex, hist, arcs, handles, tsv, plugin_manager, plugins_dir, plugin_call>>

\* main.rs:392-395: the application starts with an empty slot; the store is
\* the file on disk; no engine exists, so there is no index and no counter.
AppInit ==
    /\ store \in Stores
    /\ inflection_map = EmptyMap
    /\ stats = ZeroStats
    /\ mutex = [m \in Mutexes |-> NoThread]
    /\ th = [t \in Threads |-> IdleThread]
    /\ calls = 0
    /\ app_state = EmptySlot
    /\ hist = ZeroHist
    /\ arcs = NoArcs
    /\ handles = <<>>
    /\ tsv = NoFile
    /\ plugin_manager = NoPlugins
    /\ plugins_dir = NoPlugins
    /\ plugin_call = NoPluginCall

AppNext ==
    \E t \in Threads :
        \/ initialize_search_engine(t)
        \/ InitializeMatch(t)
        \/ search_dictionary(t)
        \/ get_suggestions(t)
        \/ get_inflections_command(t)
        \/ get_search_stats(t)
        \/ quit_app(t)
        \/ Step(t)

AppSpec == AppInit /\ [][AppNext]_vars

-----------------------------------------------------------------------------
(* Handles.  A SearchEngine is a Database (an Arc of the connection) and two *)
(* Arcs, of the index and of the counters; arcs holds the cells the Arcs     *)
(* point to, a handle holds the numbers of its cells.  Calls are made one    *)
(* after the other here, each as a whole.                                    *)

\* Variant: the clone owns copies of the index and of the counters
clone_deep(a, h) ==
    [handle |-> [h EXCEPT !.inflection_map = Len(a.inflection_map) + 1,
                          !.stats = Len(a.stats) + 1],
     arcs |-> [stats |-> Append(a.stats, a.stats[h.stats]),
               inflection_map |-> Append(a.inflection_map,
                                         a.inflection_map[h.inflection_map])]]

\* impl Clone for SearchEngine (and for Database): Arc::clone copies the
\* pointers; no cell is made
clone(a, h) == [handle |-> h, arcs |-> a]

\* The store lookups of one call, in order: lookup i fails iff fl[i]
RECURSIVE lookups(_, _, _, _)
lookups(loc, rows, fl, i) ==
    IF loc.lemmas = <<>> THEN loc
    ELSE LET lemma == Head(loc.lemmas)
         IN  lookups(on_lookup([loc EXCEPT !.lemmas = Tail(@)], lemma,
                               search_by_lemma(rows, lemma, fl[i])),
                     rows, fl, i + 1)

\* SearchEngine::search from call to return, on the index map and the
\* counters st: the result and the counters afterwards
search(map, st, rows, raw, fl) ==
    LET term == normalize(raw)
        r == get_search_lemmas(map, term)
        st1 == count_total(st)
        st2 == IF r.found THEN count_inflection(st1, map[term]) ELSE st1
        loc1 == lookups([IdleThread EXCEPT !.term = term, !.lemmas = r.lemmas,
                                           !.found = r.found],
                        rows, fl, 1)
        direct == needs_direct(loc1.all_entries, loc1.found)
        loc2 == IF direct
                THEN on_lookup(loc1, term,
                               search_by_lemma(rows, term, fl[Len(r.lemmas) + 1]))
                ELSE loc1
    IN  [result |-> search_result(loc2),
         stats |-> IF direct THEN count_direct(st2) ELSE st2]

\* SearchEngine::get_stats through handle h: the four counters
get_stats(a, h) == a.stats[h.stats]

\* The index handle h reaches
index_of(a, h) == a.inflection_map[h.inflection_map]

\* Failure patterns of the store lookups of one call (at most three lookups)
FailPatterns == [1..3 -> BOOLEAN]

HandleClone(i) ==
    /\ calls < MaxCommands
    /\ calls' = calls + 1
    /\ LET c == clone(arcs, handles[i])
       IN  /\ handles' = Append(handles, c.handle)
           /\ arcs' = c.arcs
    /\ hist' = [hist EXCEPT !.via = @ \cup {<<"clone", i>>}]
    /\ UNCHANGED <<store, inflection_map, stats, mutex, th, app_state, tsv, plugin_manager, plugins_dir, plugin_call>>

HandleSearch(i) ==
    /\ calls < MaxCommands
    /\ calls' = calls + 1
    /\ \E raw \in AppTerms, fl \in FailPatterns :
         LET h == handles[i]
             r == search(index_of(arcs, h), get_stats(arcs, h), store, raw, fl)
         IN  arcs' = [arcs EXCEPT !.stats[h.stats] = r.stats]
    /\ hist' = [hist EXCEPT !.via = @ \cup {<<"search", i>>}]
    /\ UNCHANGED <<store, inflection_map, stats, mutex, th, app_state, handles, tsv, plugin_manager, plugins_dir, plugin_call>>

\* cleanup_and_shutdown through handle i: inflections.clear()
HandleShutdown(i) ==
    /\ calls < MaxCommands
    /\ calls' = calls + 1
    /\ arcs' = [arcs EXCEPT !.inflection_map[handles[i].inflection_map] = EmptyMap]
    /\ hist' = [hist EXCEPT !.via = @ \cup {<<"cleanup_and_shutdown", i>>}]
    /\ UNCHANGED <<store, inflection_map, stats, mutex, th, app_state, handles, tsv, plugin_manager, plugins_dir, plugin_call>>

\* One engine, just built, and its first handle
HandleInit ==
    /\ store \in Stores
    /\ \E src \in Sources :
         arcs = [stats |-> <<ZeroStats>>, inflection_map |-> <<load_inflection_map(src)>>]
    /\ handles = <<[database |-> [connection |-> 1], inflection_map |-> 1, stats |-> 1]>>
    /\ inflection_map = EmptyMap
    /\ stats = ZeroStats
    /\ mutex = [m \in Mutexes |-> NoThread]
    /\ th = [t \in Threads |-> IdleThread]
    /\ calls = 0
    /\ app_state = EmptySlot
    /\ hist = ZeroHist
    /\ tsv = NoFile
    /\ plugin_manager = NoPlugins
    /\ plugins_dir = NoPlugins
    /\ plugin_call = NoPluginCall

HandleNext ==
    \E i \in 1..Len(handles) :
        \/ HandleClone(i)
        \/ HandleSearch(i)
        \/ HandleShutdown(i)

HandleSpec == HandleInit /\ [][HandleNext]_vars

-----------------------------------------------------------------------------
(* Loading.  load_inflection_map on source files put together from a few     *)
(* kinds of line, in every order.                                            *)

\* Lines of one source file
MaxLines == 3

\* The kinds of line.  text is the line as it stands in the file, without its
\* "\n"; triple says what the line stands for: <<form, lemma, tag>>, form and
\* lemma in lower case, for a line of at least three tab-separated fields
\* that is neither blank nor a comment, and <<>> for any other line; form is
\* the first field as written.
LineKinds ==
    << [text |-> <<"R", "a", "n", TAB, "R", "u", "n", TAB, "V", "D">>,
        form |-> <<"R", "a", "n">>,
        triple |-> <<w_ran, w_run, <<"V", "D">>>>],
       [text |-> <<"r", "a", "n", TAB, "r", "u", "n", TAB, "V", "N">>,
        form |-> w_ran,
        triple |-> <<w_ran, w_run, <<"V", "N">>>>],
       [text |-> <<SP, "s", "a", "w", TAB, "s", "e", "e", TAB, "V", "D", "\r">>,
        form |-> <<SP, "s", "a", "w">>,
        triple |-> <<<<SP, "s", "a", "w">>, w_see, <<"V", "D">>>>],
       [text |-> <<"w", "a", "s", TAB, "b", "e", TAB, "V", TAB, "x">>,
        form |-> w_was,
        triple |-> <<w_was, w_be, <<"V">>>>],
       [text |-> <<"b", "a", "d", TAB, "x">>, form |-> <<>>, triple |-> <<>>],
       [text |-> <<"#", TAB, "a", TAB, "b">>, form |-> <<>>, triple |-> <<>>],
       [text |-> <<SP, TAB, TAB, TAB>>, form |-> <<>>, triple |-> <<>>] >>

\* The file made of the lines of the kinds ks, each ended by "\n"
RECURSIVE FileOf(_)
FileOf(ks) ==
    IF ks = <<>> THEN <<>>
    ELSE LineKinds[Head(ks)].text \o <<NL>> \o FileOf(Tail(ks))

\* The files of at most MaxLines lines
Files == UNION { [1..n -> 1..Len(LineKinds)] : n \in 0..MaxLines }

LoadInit ==
    /\ \E ks \in Files : tsv = [content |-> FileOf(ks), kinds |-> ks, loaded |-> FALSE]
    /\ store \in {StoreB}
    /\ inflection_map = EmptyMap
    /\ stats = ZeroStats
    /\ mutex = [m \in Mutexes |-> NoThread]
    /\ th = [t \in Threads |-> IdleThread]
    /\ calls = 0
    /\ app_state = EmptySlot
    /\ hist = ZeroHist
    /\ arcs = NoArcs
    /\ handles = <<>>
    /\ plugin_manager = NoPlugins
    /\ plugins_dir = NoPlugins
    /\ plugin_call = NoPluginCall

\* SearchEngine::load_inflection_map, search_engine.rs:56-82, on a file that
\* can be read
Load ==
    /\ ~tsv.loaded
    /\ inflection_map' = load_inflection_map(tsv.content)
    /\ tsv' = [tsv EXCEPT !.loaded = TRUE]
    /\ UNCHANGED <<store, stats, mutex, th, calls, app_state, hist, arcs, handles,
                   plugin_manager, plugins_dir, plugin_call>>

LoadNext == Load

LoadSpec == LoadInit /\ [][LoadNext]_vars

-----------------------------------------------------------------------------
(* The extension registry: plugin_manager.rs.  A PluginManager holds a map   *)
(* from manifest identifier to PluginInfo; of a PluginInfo the model keeps   *)
(* manifest.enabled and loaded.  On disk every plugin is a directory with a  *)
(* manifest, of which the model keeps the enabled flag.  The calls are made  *)
(* one after the other (&mut self).                                          *)

\* Calls on one PluginManager in one behaviour
MaxPluginCalls == 3

PluginIds == {"p1", "p2"}

\* plugin_manager.rs:71-76, 198-203: a PluginInfo starts not loaded
PluginInfo(enabled) == [enabled |-> enabled, loaded |-> FALSE]

\* discover_plugins: one PluginInfo per directory with a manifest
discover_plugins(dir) == [id \in DOMAIN dir |-> PluginInfo(dir[id].enabled)]

\* The map or the directory without the entry of id
Without(f, id) == [x \in DOMAIN f \ {id} |-> f[x]]

\* The map or the directory with v under id
With(f, id, v) == [x \in DOMAIN f \cup {id} |-> IF x = id THEN v ELSE f[x]]

\* save_plugin_manifest: fs::write of the manifest, which may fail
save_plugin_manifest(dir, id, plugin, fails) ==
    IF fails THEN [ok |-> FALSE, dir |-> dir]
    ELSE [ok |-> TRUE, dir |-> With(dir, id, [enabled |-> plugin.enabled])]

\* enable_plugin: the flag is set in the map, then the manifest is saved and
\* a failure handed on by `?`
enable_plugin(plugins, dir, id, fails) ==
    IF id \in DOMAIN plugins
    THEN LET set == [plugins EXCEPT ![id].enabled = TRUE]
             saved == save_plugin_manifest(dir, id, set[id], fails)
         IN  [ok |-> saved.ok, plugins |-> set, dir |-> saved.dir]
    ELSE [ok |-> FALSE, plugins |-> plugins, dir |-> dir]

\* disable_plugin: enabled and loaded are cleared in the map, then the
\* manifest is saved
disable_plugin(plugins, dir, id, fails) ==
    IF id \in DOMAIN plugins
    THEN LET set == [plugins EXCEPT ![id].enabled = FALSE, ![id].loaded = FALSE]
             saved == save_plugin_manifest(dir, id, set[id], fails)
         IN  [ok |-> saved.ok, plugins |-> set, dir |-> saved.dir]
    ELSE [ok |-> FALSE, plugins |-> plugins, dir |-> dir]

\* uninstall_plugin: the entry is removed from the map, then the directory
\* is removed; when that fails the directory is taken to be still there
uninstall_plugin(plugins, dir, id, fails) ==
    IF id \in DOMAIN plugins
    THEN IF fails
         THEN [ok |-> FALSE, plugins |-> Without(plugins, id), dir |-> dir]
         ELSE [ok |-> TRUE, plugins |-> Without(plugins, id), dir |-> Without(dir, id)]
    ELSE [ok |-> FALSE, plugins |-> plugins, dir |-> dir]

\* install_plugin of a source with a valid manifest: an identifier the map
\* has is refused; the copy may fail; then the entry is inserted
install_plugin(plugins, dir, id, enabled, fails) ==
    IF id \in DOMAIN plugins \/ fails
    THEN [ok |-> FALSE, plugins |-> plugins, dir |-> dir]
    ELSE [ok |-> TRUE, plugins |-> With(plugins, id, PluginInfo(enabled)),
          dir |-> With(dir, id, [enabled |-> enabled])]

\* A call has returned r: the map and the disk are as the call left them
PluginCall(op, id, r) ==
    /\ plugin_call.n < MaxPluginCalls
    /\ plugin_manager' = r.plugins
    /\ plugins_dir' = r.dir
    /\ plugin_call' = [n |-> plugin_call.n + 1, op |-> op, id |-> id, ok |-> r.ok,
                       before |-> plugin_manager]
    /\ UNCHANGED <<store, inflection_map, stats, mutex, th, calls, app_state, hist, arcs,
                   handles, tsv>>

EnablePlugin ==
    \E id \in PluginIds, fails \in BOOLEAN :
        PluginCall("enable_plugin", id, enable_plugin(plugin_manager, plugins_dir, id, fails))

DisablePlugin ==
    \E id \in PluginIds, fails \in BOOLEAN :
        PluginCall("disable_plugin", id, disable_plugin(plugin_manager, plugins_dir, id, fails))

UninstallPlugin ==
    \E id \in PluginIds, fails \in BOOLEAN :
        PluginCall("uninstall_plugin", id,
                   uninstall_plugin(plugin_manager, plugins_dir, id, fails))

InstallPlugin ==
    \E id \in PluginIds, enabled \in BOOLEAN, fails \in BOOLEAN :
        PluginCall("install_plugin", id,
                   install_plugin(plugin_manager, plugins_dir, id, enabled, fails))

\* PluginManager::new: the directories on disk are discovered
PluginInit ==
    /\ \E ids \in SUBSET PluginIds : plugins_dir \in [ids -> [enabled : BOOLEAN]]
    /\ plugin_manager = discover_plugins(plugins_dir)
    /\ plugin_call = NoPluginCall
    /\ store \in {StoreB}
    /\ inflection_map = EmptyMap
    /\ stats = ZeroStats
    /\ mutex = [m \in Mutexes |-> NoThread]
    /\ th = [t \in Threads |-> IdleThread]
    /\ calls = 0
    /\ app_state = EmptySlot
    /\ hist = ZeroHist
    /\ arcs = NoArcs
    /\ handles = <<>>
    /\ tsv = NoFile

PluginNext == EnablePlugin \/ DisablePlugin \/ UninstallPlugin \/ InstallPlugin

PluginSpec == PluginInit /\ [][PluginNext]_vars

-----------------------------------------------------------------------------
(* Properties of search *)

\* A search call has returned and its result has not been taken yet.
SearchDone(t) == th[t].pc = "done" /\ th[t].op = "search"

Ids(entries) == {entries[i].id : i \in 1..Len(entries)}

\* The lookups of the call, by phase
LoopLog(t) == SelectSeq(th[t].log, LAMBDA e : e.phase = "loop")
DirectLog(t) == SelectSeq(th[t].log, LAMBDA e : e.phase = "direct")

\* Some store lookup of the call failed.
SomeFailed(t) == \E i \in 1..Len(th[t].log) : ~th[t].log[i].ok

\* The loop over the candidates gathered no entry.
LoopGatheredNothing(t) ==
    \A i \in 1..Len(LoopLog(t)) : LoopLog(t)[i].rows = <<>>

\* C1: the entries returned by search never hold two records with the same
\* identifier.
C1_NoDuplicateIds ==
    \A t \in Threads :
        SearchDone(t) =>
            \A i, j \in 1..Len(th[t].result.entries) :
                i # j => th[t].result.entries[i].id # th[t].result.entries[j].id

\* C1 witness: a call whose candidate list named one lemma twice, so that the
\* merged list held every row twice, has returned.
C1_Witness ==
    \E t \in Threads :
        /\ SearchDone(t)
        /\ Len(th[t].pairs) = 2
        /\ th[t].pairs[1][1] = th[t].pairs[2][1]
        /\ Len(th[t].all_entries) = 4
        /\ Len(th[t].result.entries) = 2

\* C2: for a term the index maps to lemmas L1..Ln, with no failing lookup,
\* the identifiers returned are exactly those of the rows of L1..Ln.
C2_UnionOfCandidates ==
    \A t \in Threads :
        (SearchDone(t) /\ th[t].had /\ ~SomeFailed(t)) =>
            Ids(th[t].result.entries) =
                UNION { Ids(SelectByLemma(store, th[t].pairs[i][1])) :
                        i \in 1..Len(th[t].pairs) }

\* C2 witness: two different candidate lemmas, each with rows, no failure.
C2_Witness ==
    \E t \in Threads :
        /\ SearchDone(t) /\ th[t].had /\ ~SomeFailed(t)
        /\ Len(th[t].pairs) = 2
        /\ th[t].pairs[1][1] # th[t].pairs[2][1]
        /\ \A i \in 1..2 : SelectByLemma(store, th[t].pairs[i][1]) # <<>>

\* C3: found_inflections is true exactly when the index held the normalized
\* term at the time of the lookup, whatever the store lookups gave.
C3_FlagIffIndexed ==
    \A t \in Threads :
        SearchDone(t) => (th[t].result.found_inflections <=> th[t].had)

\* C3 witness: the index held the term, a lookup failed, nothing was found,
\* and the flag is true.
C3_Witness ==
    \E t \in Threads :
        /\ SearchDone(t) /\ th[t].had /\ SomeFailed(t)
        /\ th[t].result.entries = <<>>
        /\ th[t].result.found_inflections

\* C4: the direct search is made exactly when the loop gathered nothing and
\* no mapping was found, once, and direct_lookups goes up by one exactly then.
C4_FallbackIff ==
    \A t \in Threads :
        SearchDone(t) =>
            /\ (DirectLog(t) # <<>>) <=> (LoopGatheredNothing(t) /\ ~th[t].had)
            /\ Len(DirectLog(t)) <= 1
            /\ \A i \in 1..Len(DirectLog(t)) : DirectLog(t)[i].lemma = th[t].term
            /\ th[t].inc.direct = Len(DirectLog(t))

\* C4 witness: a call that made the direct search and counted it.
C4_Witness ==
    \E t \in Threads :
        SearchDone(t) /\ Len(DirectLog(t)) = 1 /\ th[t].inc.direct = 1

\* C5: a mapping whose candidates all yield nothing: no entries, the flag
\* true, no lookup besides the candidates', direct_lookups untouched.
C5_NoFallbackAfterExpansion ==
    \A t \in Threads :
        (SearchDone(t) /\ th[t].had /\ LoopGatheredNothing(t)) =>
            /\ th[t].result.entries = <<>>
            /\ th[t].result.found_inflections
            /\ DirectLog(t) = <<>>
            /\ Len(th[t].log) = Len(th[t].pairs)
            /\ th[t].inc.direct = 0

\* C5 witness: the term was mapped, every candidate lookup succeeded and gave
\* no row.
C5_Witness ==
    \E t \in Threads :
        /\ SearchDone(t) /\ th[t].had /\ ~SomeFailed(t)
        /\ LoopGatheredNothing(t)
        /\ th[t].term \notin {store[i].lemma : i \in 1..Len(store)}

\* The case of C6: no mapping, and the lookup of the term itself failed.
UnmappedLookupFailed(t) ==
    /\ SearchDone(t)
    /\ ~th[t].had
    /\ Len(LoopLog(t)) = 1
    /\ ~LoopLog(t)[1].ok

\* C6 as stated: when the term has no mapping and its lookup fails, so that
\* nothing is gathered, search returns the store error.
C6_ErrorSurfaced ==
    \A t \in Threads :
        (UnmappedLookupFailed(t) /\ th[t].all_entries = <<>>) => ~th[t].result.ok

\* C6 amended: in that case search never returns an error; it repeats the
\* lookup once as the direct search and returns Ok with the rows of that
\* second lookup (none if it fails too) and found_inflections false.
C6_ErrorSwallowed ==
    \A t \in Threads :
        UnmappedLookupFailed(t) =>
            /\ th[t].result.ok
            /\ ~th[t].result.found_inflections
            /\ Len(th[t].log) = 2
            /\ th[t].log[2].phase = "direct"
            /\ th[t].log[2].lemma = th[t].term
            /\ Ids(th[t].result.entries) = Ids(th[t].log[2].rows)
            /\ ~th[t].log[2].ok =>
                  /\ th[t].result.entries = <<>>
                  /\ th[t].result.query_used = th[t].term

\* C6 witness: both the lookup in the loop and the direct search failed, and
\* the call returned Ok with no entries.
C6_Witness ==
    \E t \in Threads :
        /\ UnmappedLookupFailed(t)
        /\ ~th[t].log[2].ok
        /\ th[t].result.ok
        /\ th[t].result.entries = <<>>

\* C7: with several candidates, a failed lookup counts as no rows for that
\* lemma only: every candidate is still looked up, in order, and the call
\* returns Ok with exactly the rows of the lookups that succeeded.
C7_FailureIsLocal ==
    \A t \in Threads :
        (SearchDone(t) /\ th[t].had /\ Len(th[t].pairs) >= 2 /\ SomeFailed(t)) =>
            /\ th[t].result.ok
            /\ Len(th[t].log) = Len(th[t].pairs)
            /\ \A i \in 1..Len(th[t].log) :
                  /\ th[t].log[i].phase = "loop"
                  /\ th[t].log[i].lemma = th[t].pairs[i][1]
            /\ Ids(th[t].result.entries) =
                  UNION { Ids(SelectByLemma(store, th[t].log[i].lemma)) :
                          i \in {k \in 1..Len(th[t].log) : th[t].log[k].ok} }

\* C7 witness: the first of two candidates failed, the second gave rows, and
\* these rows were returned.
C7_Witness ==
    \E t \in Threads :
        /\ SearchDone(t) /\ th[t].had /\ Len(th[t].pairs) = 2
        /\ ~th[t].log[1].ok
        /\ th[t].log[2].ok /\ th[t].log[2].rows # <<>>
        /\ th[t].result.entries # <<>>

-----------------------------------------------------------------------------
(* Properties of the locking *)

\* C8 as stated: no thread ever holds more than one of the three mutexes.
C8_AtMostOneLock ==
    \A t \in Threads : Cardinality(Held(t)) <= 1

\* C8 amended: a thread holds more than one mutex only in two places: search
\* holds the index guard while it locks and bumps the counters
\* (get_search_lemmas), and get_stats holds the counters guard while it locks
\* and reads the store.  Nowhere are all three held, and get_suggestions,
\* get_inflections and cleanup_and_shutdown hold at most one.
C8_AtMostOneLockExceptNested ==
    \A t \in Threads :
        \/ Cardinality(Held(t)) <= 1
        \/ /\ Held(t) = {"inflection_map", "stats"}
           /\ th[t].op = "search" /\ th[t].pc = "s_infl"
        \/ /\ Held(t) = {"stats", "connection"}
           /\ th[t].op = "get_stats" /\ th[t].pc = "st_read"

\* C8 witness: a search holds the index and the counters at once while
\* another thread is inside cleanup_and_shutdown.
C8_Witness ==
    \E t, u \in Threads :
        /\ Held(t) = {"inflection_map", "stats"}
        /\ th[u].op = "cleanup_and_shutdown" /\ th[u].pc = "sh_index_lock"

\* The thread that holds the mutex t is waiting for (NoThread if t is not
\* waiting)
WaitsFor(t) ==
    IF wants(th[t].pc) # "none" THEN mutex[wants(th[t].pc)] ELSE NoThread

RECURSIVE WaitChain(_, _)
WaitChain(t, n) ==
    IF n = 0 \/ t = NoThread THEN t ELSE WaitChain(WaitsFor(t), n - 1)

\* No thread waits, directly or through others, for a mutex it holds itself.
NoWaitCycle ==
    \A t \in Threads : \A n \in 1..Cardinality(Threads) : WaitChain(t, n) # t

\* C9: no reachable state holds a cycle of threads each waiting for a mutex
\* held by the next, and under fair scheduling every call returns.
C9_NoDeadlockAndReturns ==
    /\ []NoWaitCycle
    /\ \A t \in Threads : (th[t].pc # "idle") ~> (th[t].pc = "done")

\* C9 witness: a thread inside get_stats, holding the counters, waits for the
\* connection, which a search holds while the search will need the counters
\* again.
C9_Witness ==
    \E t, u \in Threads :
        /\ t # u
        /\ th[t].pc = "st_db_lock" /\ WaitsFor(t) = u
        /\ th[u].op = "search" /\ th[u].pc = "s_direct"

-----------------------------------------------------------------------------
(* Properties of the counters *)

\* C10: one search call adds exactly one to total_searches, exactly one to
\* inflection_lookups if the term had a mapping (however many candidates) and
\* nothing otherwise, and at most one to direct_lookups.
C10_IncrementsPerCall ==
    \A t \in Threads :
        SearchDone(t) =>
            /\ th[t].inc.total = 1
            /\ th[t].inc.infl = (IF th[t].had THEN 1 ELSE 0)
            /\ th[t].inc.direct \in {0, 1}

\* C10 witness: a call that expanded a term into two candidates has returned.
C10_Witness ==
    \E t \in Threads :
        SearchDone(t) /\ th[t].had /\ Len(th[t].pairs) = 2 /\ th[t].inc.infl = 1

\* The search calls that have come back and whose result the caller has not
\* taken yet
Landed == {t \in Threads : SearchDone(t)}

\* C11: whenever no call is inside the engine, total_searches is the number
\* of search calls made, inflection_lookups the number of those that found a
\* mapping, direct_lookups the number of those that made the direct search:
\* no increment is lost, whatever the interleaving.
C11_NoLostUpdate ==
    (\A t \in Threads : th[t].pc \in {"idle", "done"}) =>
        /\ stats.total_searches = hist.searches + Cardinality(Landed)
        /\ stats.inflection_lookups =
              hist.expanded + Cardinality({t \in Landed : th[t].had})
        /\ stats.direct_lookups =
              hist.fellback + Cardinality({t \in Landed : DirectLog(t) # <<>>})

\* C11 witness: two search calls made on two threads have both come back,
\* one after an expansion and one after the direct search.
C11_Witness ==
    /\ Landed = Threads
    /\ \E t, u \in Threads : th[t].had /\ DirectLog(u) # <<>>
    /\ stats.total_searches = 2
    /\ stats.inflection_lookups = 1
    /\ stats.direct_lookups = 1

-----------------------------------------------------------------------------
(* Properties of the application *)

\* A statistics command has come back with counters.
StatsDone(t) ==
    th[t].pc = "done" /\ th[t].op = "get_stats" /\ th[t].result.kind = "stats"

\* C12 as stated: over any sequence of initialization, search, suggestion,
\* inflection, statistics and shutdown commands, no counter a statistics
\* command reports is below the value an earlier statistics command reported.
C12_CountersNeverDecrease ==
    \A t \in Threads :
        StatsDone(t) =>
            /\ th[t].result.total_searches >= hist.reported.total_searches
            /\ th[t].result.cache_hits >= hist.reported.cache_hits
            /\ th[t].result.inflection_lookups >= hist.reported.inflection_lookups
            /\ th[t].result.direct_lookups >= hist.reported.direct_lookups

\* An initialize_search_engine command has come back with an error.
InitFailed(loc) ==
    loc.pc = "done" /\ loc.op = "initialize_search_engine" /\ ~loc.result.ok

EngineCommands == {"search", "get_suggestions", "get_inflections", "get_stats"}

\* C13: the step in which initialize_search_engine fails leaves the slot,
\* the index and the counters as they were; the error says what failed; and
\* as long as no construction has succeeded the slot is empty and every
\* engine command returns the not-initialized error.
C13_FailedInitKeepsSlot ==
    /\ [][\A t \in Threads :
            (InitFailed(th'[t]) /\ ~InitFailed(th[t])) =>
                /\ app_state'.search_engine = app_state.search_engine
                /\ inflection_map' = inflection_map
                /\ stats' = stats]_vars
    /\ [](\A t \in Threads :
            InitFailed(th[t]) =>
                th[t].result.kind \in {"database_file_not_found",
                                       "inflection_file_not_found",
                                       "failed_to_initialize"})
    /\ [](hist.installs = 0 =>
            /\ app_state.search_engine = "None"
            /\ \A t \in Threads :
                  (th[t].pc = "done" /\ th[t].op \in EngineCommands) =>
                      th[t].result = NotInitialized)

\* C13 witness: with an engine in the slot, a second initialization failed
\* inside SearchEngine::new and came back while a search on the engine that
\* was there before returned entries.
C13_Witness ==
    \E t, u \in Threads :
        /\ InitFailed(th[t]) /\ th[t].result.kind = "failed_to_initialize"
        /\ hist.installs = 1
        /\ app_state.search_engine = "Some"
        /\ SearchDone(u) /\ th[u].result.ok /\ th[u].result.entries # <<>>

-----------------------------------------------------------------------------
(* Properties of the handles *)

\* C14: all handles reach the same counters and the same index: statistics
\* through any handle reports the increments made through every other, and
\* the index one handle's shutdown cleared is empty for all.
C14_HandlesShareState ==
    \A i, j \in 1..Len(handles) :
        /\ get_stats(arcs, handles[i]) = get_stats(arcs, handles[j])
        /\ index_of(arcs, handles[i]) = index_of(arcs, handles[j])

\* C14 witness: three handles; searches were made through the second and the
\* third, shutdown through the first, and the original handle sees both
\* searches and the empty index.
C14_Witness ==
    /\ Len(handles) = 3
    /\ {<<"search", 2>>, <<"search", 3>>, <<"cleanup_and_shutdown", 1>>} \subseteq hist.via
    /\ get_stats(arcs, handles[1]).total_searches = 2
    /\ index_of(arcs, handles[3]) = EmptyMap

-----------------------------------------------------------------------------
(* Properties of shutdown *)

\* The steps a cleanup_and_shutdown call has finished, in the order it
\* finished them
Phases(t) == [i \in 1..Len(th[t].log) |-> th[t].log[i].phase]

\* C15: cleanup_and_shutdown works on the store first, clears the index only
\* when the store step is over and its guard gone, and reads the counters
\* only when the index is cleared and its guard gone.
C15_ShutdownOrder ==
    \A t \in Threads :
        th[t].op = "cleanup_and_shutdown" =>
            /\ \E n \in 0..3 : Phases(t) = SubSeq(<<"checkpoint", "clear", "stats">>, 1, n)
            /\ mutex["connection"] = t => (Phases(t) = <<>> /\ Held(t) = {"connection"})
            /\ mutex["inflection_map"] = t =>
                  (Phases(t) = <<"checkpoint">> /\ Held(t) = {"inflection_map"})
            /\ mutex["stats"] = t =>
                  (Phases(t) = <<"checkpoint", "clear">> /\ Held(t) = {"stats"})
            /\ th[t].pc = "sh_index_lock" => Phases(t) = <<"checkpoint">>
            /\ th[t].pc = "sh_stats_lock" =>
                  (Phases(t) = <<"checkpoint", "clear">> /\ inflection_map = EmptyMap)
            /\ th[t].pc = "done" =>
                  (Phases(t) = <<"checkpoint", "clear", "stats">> /\ Held(t) = {})

\* C15 witness: a shutdown whose checkpoint failed is reading the counters,
\* the index cleared, while the other thread is in the middle of a search.
C15_Witness ==
    \E t, u \in Threads :
        /\ th[t].op = "cleanup_and_shutdown" /\ th[t].pc = "sh_stats"
        /\ ~th[t].log[1].ok
        /\ inflection_map = EmptyMap
        /\ th[u].op = "search" /\ th[u].pc = "s_query"

\* The indexes SearchEngine::new may have built
LoadedIndexes == {load_inflection_map(src) : src \in Sources}

\* C16: the index changes in no step but the clear of cleanup_and_shutdown,
\* which empties it; until then it is the index that was loaded, whatever
\* search, get_suggestions, get_inflections and get_stats calls are made.
C16_IndexOnlyClearedByShutdown ==
    /\ [][inflection_map' # inflection_map =>
            /\ inflection_map' = EmptyMap
            /\ \E t \in Threads :
                  /\ th[t].op = "cleanup_and_shutdown"
                  /\ th[t].pc = "sh_index"
                  /\ th'[t].pc = "sh_stats_lock"]_vars
    /\ [](inflection_map \in LoadedIndexes \cup {EmptyMap})

\* C16 witness: a search that expanded its term and a get_inflections call
\* that returned pairs have both come back, and the index still holds these
\* pairs.
C16_Witness ==
    \E t, u \in Threads :
        /\ SearchDone(t) /\ th[t].had
        /\ th[u].pc = "done" /\ th[u].op = "get_inflections"
        /\ th[u].result.pairs # <<>>
        /\ th[u].term \in DOMAIN inflection_map
        /\ inflection_map[th[u].term] = th[u].result.pairs

-----------------------------------------------------------------------------
(* Properties of the result *)

C18_AscendingIds ==
    \A t \in Threads :
        SearchDone(t) =>
            \A i, j \in 1..Len(th[t].result.entries) :
                i < j => th[t].result.entries[i].id < th[t].result.entries[j].id

\* C18 witness: the lookups delivered a larger id before a smaller one, and
\* the result holds them the other way round.
C18_Witness ==
    \E t \in Threads :
        /\ SearchDone(t)
        /\ Len(th[t].log) >= 1 /\ Len(th[t].log[1].rows) = 2
        /\ th[t].log[1].rows[1].id > th[t].log[1].rows[2].id
        /\ Len(th[t].result.entries) >= 2
        /\ th[t].result.entries[1] = th[t].log[1].rows[2]

\* The lemmas of the candidate lookups that delivered at least one row, in
\* the order of the lookups
Hits(t) ==
    LET hit == SelectSeq(LoopLog(t), LAMBDA e : e.ok /\ e.rows # <<>>)
    IN  [i \in 1..Len(hit) |-> hit[i].lemma]

\* C19: query_used is the candidates whose lookup delivered at least one
\* row, in candidate order, joined by ", "; candidates whose lookup delivered
\* nothing or failed are not in it; with no such candidate it is the lemma of
\* the direct search if that delivered rows, which is the normalized term,
\* and the normalized term otherwise.
C19_Provenance ==
    \A t \in Threads :
        SearchDone(t) =>
            th[t].result.query_used =
                IF Hits(t) = <<>> THEN th[t].term
                ELSE IF Len(Hits(t)) = 1 THEN Hits(t)[1]
                ELSE IF Len(Hits(t)) = 2 THEN Hits(t)[1] \o <<",", " ">> \o Hits(t)[2]
                ELSE join(Hits(t), <<",", " ">>)

\* C19 witness: of two different candidates the lookup of the first failed
\* and the second delivered rows; query_used is the second lemma alone.
C19_Witness ==
    \E t \in Threads :
        /\ SearchDone(t) /\ th[t].had /\ Len(th[t].pairs) = 2
        /\ th[t].pairs[1][1] # th[t].pairs[2][1]
        /\ ~th[t].log[1].ok
        /\ th[t].log[2].rows # <<>>
        /\ th[t].result.query_used = th[t].pairs[2][1]

\* C20: a term the index does not hold and the store has no row for: search
\* returns Ok with no entries, found_inflections false and the normalized
\* term as query_used.
C20_UnknownTerm ==
    \A t \in Threads :
        (SearchDone(t) /\ ~th[t].had /\ SelectByLemma(store, th[t].term) = <<>>) =>
            /\ th[t].result.ok
            /\ th[t].result.entries = <<>>
            /\ th[t].result.total_results = 0
            /\ ~th[t].result.found_inflections
            /\ th[t].result.query_used = th[t].term

\* C20 witness: such a term, whose two lookups (candidate and direct search)
\* were both answered with no row.
C20_Witness ==
    \E t \in Threads :
        /\ SearchDone(t) /\ ~th[t].had /\ ~SomeFailed(t)
        /\ Len(th[t].log) = 2
        /\ SelectByLemma(store, th[t].term) = <<>>
        /\ th[t].term = w_xy
        /\ th[t].result.query_used = w_xy

-----------------------------------------------------------------------------
(* Properties of the load *)

\* The triples the lines of the file stand for, in file order
Expected ==
    LET wf == SelectSeq(tsv.kinds, LAMBDA k : LineKinds[k].triple # <<>>)
    IN  [i \in 1..Len(wf) |-> LineKinds[wf[i]].triple]

\* The places of the index: a form and a position in its list
Places ==
    UNION { {<<k, i>> : i \in 1..Len(inflection_map[k])} : k \in DOMAIN inflection_map }

TripleAt(pl) ==
    <<pl[1], inflection_map[pl[1]][pl[2]][1], inflection_map[pl[1]][pl[2]][2]>>

\* C21: a file of N lines with at least three fields, neither blank nor
\* comment, and M other lines, in any order, loads into an index that holds
\* exactly the N triples of those lines: as many pairs as such lines, each
\* triple as often as the file has it, and nothing else.
C21_LoadsExactlyWellFormed ==
    tsv.loaded =>
        /\ Cardinality(Places) = Len(Expected)
        /\ \A pl \in Places : \E i \in 1..Len(Expected) : Expected[i] = TripleAt(pl)
        /\ \A i \in 1..Len(Expected) :
              Cardinality({pl \in Places : TripleAt(pl) = Expected[i]}) =
              Cardinality({j \in 1..Len(Expected) : Expected[j] = Expected[i]})

\* C21 witness: a malformed line between two lines of the same form; both
\* are in the index.
C21_Witness ==
    /\ tsv.loaded
    /\ tsv.kinds = <<1, 5, 2>>
    /\ Len(inflection_map[w_ran]) = 2

\* The pairs the file gives for a form, in file order
PairsOf(form) ==
    LET of == SelectSeq(Expected, LAMBDA tr : tr[1] = form)
    IN  [i \in 1..Len(of) |-> <<of[i][2], of[i][3]>>]

\* C22: the list of a form holds one pair per line of that form, in file
\* order, equal pairs as often as they occur; get_inflections returns that
\* list and the expansion of search its lemmas, in that order.
C22_PairsInFileOrder ==
    tsv.loaded =>
        /\ \A i \in 1..Len(Expected) : Expected[i][1] \in DOMAIN inflection_map
        /\ \A k \in DOMAIN inflection_map :
              /\ inflection_map[k] = PairsOf(k)
              /\ get_inflections(inflection_map, k) = PairsOf(k)
              /\ get_search_lemmas(inflection_map, k).lemmas =
                    [i \in 1..Len(PairsOf(k)) |-> PairsOf(k)[i][1]]

\* C22 witness: three lines of one form, the first and the last the same
\* pair; the list has all three.
C22_Witness ==
    /\ tsv.loaded
    /\ tsv.kinds = <<2, 1, 2>>
    /\ inflection_map[w_ran] =
          << <<w_run, <<"V", "N">>>>, <<w_run, <<"V", "D">>>>, <<w_run, <<"V", "N">>>> >>

\* What is looked up after the load
LoadQueries == RawTerms \cup { <<SP, "S", "A", "W", SP>> }

\* C23 as stated: every key of the loaded index is lower case and trimmed,
\* and for every line of at least three fields with form F, a query that
\* equals F once both are trimmed and put in lower case finds the line's
\* pair, through get_inflections and through the expansion of search.
C23_KeysNormalized ==
    tsv.loaded =>
        /\ \A k \in DOMAIN inflection_map : k = normalize(k)
        /\ \A i \in 1..Len(tsv.kinds) : \A q \in LoadQueries :
              LET line == LineKinds[tsv.kinds[i]]
                  word == normalize(q)
                  found == get_inflections(inflection_map, word)
              IN  (line.triple # <<>> /\ word = normalize(line.form)) =>
                      /\ \E j \in 1..Len(found) :
                            found[j] = <<line.triple[2], line.triple[3]>>
                      /\ get_search_lemmas(inflection_map, word).found

-----------------------------------------------------------------------------
(* Properties of the store operations *)

SuggestDone(t) ==
    /\ th[t].pc = "done"
    /\ th[t].op = "get_suggestions"
    /\ th[t].result.ok

\* s starts with p, letters compared without regard to case
starts_with_ignoring_case(s, p) ==
    /\ Len(p) <= Len(s)
    /\ \A i \in 1..Len(p) : Lower(s[i]) = Lower(p[i])

\* C24 as stated: for every prefix, '%' and '_' included, and every limit,
\* the suggestions are at most limit strings, all distinct, each starting
\* with the normalized prefix without regard to case.
C24_SuggestionsStartWithPrefix ==
    \A t \in Threads :
        SuggestDone(t) =>
            LET words == th[t].result.words
            IN  /\ Len(words) <= th[t].limit
                /\ \A i, j \in 1..Len(words) : i # j => words[i] # words[j]
                /\ \A i \in 1..Len(words) : starts_with_ignoring_case(words[i], th[t].term)

\* The frequency/rank of a row; a row without one ranks below all others
RankOf(row) ==
    IF row.frequency_meaning = "" THEN -1
    ELSE CHOOSE n \in 0..9 : ToString(n) = row.frequency_meaning

\* The answered lookups of a call
Answered(t) == SelectSeq(th[t].log, LAMBDA e : e.ok)

\* Where the store holds the entry of an identifier
PlaceOf(id) == CHOOSE i \in 1..Len(store) : store[i].id = id

ExactlyTheLemma(e) ==
    /\ \A i \in 1..Len(e.rows) : e.rows[i].lemma = e.lemma
    /\ \A i \in 1..Len(store) :
          store[i].lemma = e.lemma => \E j \in 1..Len(e.rows) : e.rows[j] = store[i]
    /\ Len(e.rows) = Cardinality({i \in 1..Len(store) : store[i].lemma = e.lemma})

SameAnswerEachTime ==
    \A t, u \in Threads :
        \A i \in 1..Len(Answered(t)) : \A j \in 1..Len(Answered(u)) :
            Answered(t)[i].lemma = Answered(u)[j].lemma =>
                Answered(t)[i].rows = Answered(u)[j].rows

-----------------------------------------------------------------------------
(* Properties of get_inflections, the counters and the lookups *)

InflectionsDone(t) == th[t].pc = "done" /\ th[t].op = "get_inflections"

C27_CacheHitsZero ==
    /\ stats.cache_hits = 0
    /\ \A t \in Threads : StatsDone(t) => th[t].result.cache_hits = 0

\* C27 witness: statistics returned after searches that expanded a term and
\* that fell back to the direct search; cache_hits is 0.
C27_Witness ==
    \E t \in Threads :
        /\ StatsDone(t)
        /\ th[t].result.total_searches >= 1
        /\ th[t].result.direct_lookups >= 1
        /\ th[t].result.cache_hits = 0

\* The candidates of a call, in order
Candidates(t) ==
    IF th[t].had THEN [i \in 1..Len(th[t].pairs) |-> th[t].pairs[i][1]]
    ELSE <<th[t].term>>

\* C28 as stated: within one call no lemma string is looked up twice.
C28_EachLemmaOnce ==
    \A t \in Threads :
        th[t].op = "search" =>
            \A i, j \in 1..Len(th[t].log) :
                i # j => th[t].log[i].lemma # th[t].log[j].lemma

\* C28 amended: no lookup is retried: the loop looks every candidate up
\* once, in order, failed or not, a lemma the index lists twice being looked
\* up twice; the only other lookup is the one direct search of the term,
\* made exactly when the term has no mapping and the loop gathered nothing.
C28_OneLookupPerCandidate ==
    \A t \in Threads :
        /\ th[t].op = "search" => Len(DirectLog(t)) <= 1
        /\ SearchDone(t) =>
              /\ Len(LoopLog(t)) = Len(Candidates(t))
              /\ \A i \in 1..Len(LoopLog(t)) : LoopLog(t)[i].lemma = Candidates(t)[i]
              /\ th[t].log = LoopLog(t) \o DirectLog(t)
              /\ DirectLog(t) # <<>> <=> (~th[t].had /\ LoopGatheredNothing(t))
              /\ \A i \in 1..Len(DirectLog(t)) : DirectLog(t)[i].lemma = th[t].term

\* C28 witness: the lookup of an unmapped term failed, and the direct search
\* looked the same term up once more and failed as well; nothing followed.
C28_Witness ==
    \E t \in Threads :
        /\ SearchDone(t) /\ ~th[t].had
        /\ Len(th[t].log) = 2
        /\ ~th[t].log[1].ok /\ ~th[t].log[2].ok
        /\ th[t].log[1].lemma = th[t].log[2].lemma

\* How often x occurs in the sequence s
Occurrences(s, x) == Cardinality({i \in 1..Len(s) : s[i] = x})

\* C29 as stated: the searched-lemma list of a returned search names no
\* lemma twice.
C29_EachLemmaNamedOnce ==
    \A t \in Threads :
        SearchDone(t) =>
            \A i, j \in 1..Len(th[t].searched_terms) :
                i # j => th[t].searched_terms[i] # th[t].searched_terms[j]

\* C29 amended: the searched-lemma list names a lemma once for every lookup
\* of it that delivered an entry: a lemma the index maps the term to under
\* several tags is named once per such pair whose lookup delivered entries.
C29_NamedOncePerDeliveringLookup ==
    \A t \in Threads :
        SearchDone(t) =>
            /\ Len(th[t].searched_terms) =
                  Cardinality({i \in 1..Len(th[t].log) :
                                  th[t].log[i].ok /\ th[t].log[i].rows # <<>>})
            /\ \A n \in 1..Len(th[t].log) :
                  Occurrences(th[t].searched_terms, th[t].log[n].lemma) =
                      Cardinality({i \in 1..Len(th[t].log) :
                                      /\ th[t].log[i].lemma = th[t].log[n].lemma
                                      /\ th[t].log[i].ok
                                      /\ th[t].log[i].rows # <<>>})

\* C29 witness: the index maps the term to run under two tags, both lookups
\* delivered entries, and the list names run twice.
C29_Witness ==
    \E t \in Threads :
        /\ SearchDone(t) /\ Len(th[t].pairs) = 2
        /\ th[t].pairs[1][1] = w_run /\ th[t].pairs[2][1] = w_run
        /\ th[t].pairs[1][2] # th[t].pairs[2][2]
        /\ th[t].searched_terms = <<w_run, w_run>>

\* C30: in every statistics value returned, and in every state in which no
\* thread holds the counters lock, inflection_lookups + direct_lookups is at
\* most total_searches.
C30_LookupsWithinSearches ==
    /\ mutex["stats"] = NoThread =>
          stats.inflection_lookups + stats.direct_lookups <= stats.total_searches
    /\ \A t \in Threads :
          StatsDone(t) =>
              th[t].result.inflection_lookups + th[t].result.direct_lookups
                  <= th[t].result.total_searches

\* C30 witness: statistics returned after a search that made the direct
\* search: the sum equals the total.
C30_Witness ==
    \E t \in Threads :
        /\ StatsDone(t)
        /\ th[t].result.inflection_lookups = 0
        /\ th[t].result.direct_lookups = 1
        /\ th[t].result.total_searches = 1

-----------------------------------------------------------------------------
(* Properties of the operations besides search *)

\* C31: the counters change in no step but the three increments of search:
\* no step of get_suggestions, get_inflections, get_stats or
\* cleanup_and_shutdown changes any of the four, and a get_inflections call
\* for a word the index holds adds nothing to inflection_lookups.
C31_OnlySearchCounts ==
    [][stats' # stats =>
          \E t \in Threads :
              /\ th[t].op = "search"
              /\ th[t].pc \in {"s_total", "s_infl", "s_dstat"}
              /\ th'[t].pc # th[t].pc
              /\ \A u \in Threads \ {t} : th'[u] = th[u]]_vars

\* C31 witness: get_inflections has returned the pairs of a word the index
\* holds and cleanup_and_shutdown has returned; the counters are all zero.
C31_Witness ==
    \E t, u \in Threads :
        /\ InflectionsDone(t) /\ th[t].result.pairs # <<>>
        /\ th[u].pc = "done" /\ th[u].op = "cleanup_and_shutdown"
        /\ stats = ZeroStats

\* cleanup_and_shutdown of thread t is past inflections.clear()
PastClear(t) ==
    /\ th[t].op = "cleanup_and_shutdown"
    /\ th[t].pc \in {"sh_stats_lock", "sh_stats", "done"}

\* C32: once cleanup_and_shutdown is past its clear the index is empty and
\* stays empty; every search that reads the index from then on finds no
\* mapping, has the normalized term as its only candidate, looks up nothing
\* but that term and reports found_inflections = false, also for a term that
\* had a mapping; every get_inflections that reads it returns the empty
\* sequence.
C32_AfterShutdown ==
    /\ [](\A u \in Threads : PastClear(u) => inflection_map = EmptyMap)
    /\ [][inflection_map = EmptyMap => inflection_map' = EmptyMap]_vars
    /\ [][\A t \in Threads :
            (inflection_map = EmptyMap /\ th[t].pc = "s_index" /\ th'[t].pc # "s_index") =>
                /\ ~th'[t].had
                /\ ~th'[t].found
                /\ th'[t].lemmas = <<th[t].term>>]_vars
    /\ [][\A t \in Threads :
            (inflection_map = EmptyMap /\ th[t].pc = "i_get" /\ th'[t].pc # "i_get") =>
                th'[t].result.pairs = <<>>]_vars
    /\ [](\A t \in Threads :
            (SearchDone(t) /\ ~th[t].had) =>
                /\ ~th[t].result.found_inflections
                /\ \A i \in 1..Len(th[t].log) : th[t].log[i].lemma = th[t].term
                /\ th[t].result.query_used = th[t].term)

\* C32 witness: cleanup_and_shutdown has returned, and a search for a term
\* every loaded index maps, and the store has no row for, found no mapping
\* and looked the term itself up, in the loop and in the direct search.
C32_Witness ==
    \E t, u \in Threads :
        /\ th[u].pc = "done" /\ th[u].op = "cleanup_and_shutdown"
        /\ SearchDone(t) /\ ~th[t].had
        /\ \A idx \in LoadedIndexes : th[t].term \in DOMAIN idx
        /\ ~th[t].result.found_inflections
        /\ Len(th[t].log) = 2
        /\ th[t].log[1].lemma = th[t].term /\ th[t].log[2].lemma = th[t].term

ShutdownDone(t) == th[t].pc = "done" /\ th[t].op = "cleanup_and_shutdown"

\* C33: cleanup_and_shutdown never reports a failure: whether the checkpoint
\* and the cache flush went through or failed, the call that has returned
\* has cleared the index, has logged the counters and has returned Ok.
C33_ShutdownBestEffort ==
    \A t \in Threads :
        ShutdownDone(t) =>
            /\ th[t].result.ok
            /\ th[t].result.kind = "shutdown"
            /\ Len(th[t].log) = 3
            /\ th[t].log[1].phase = "checkpoint"
            /\ th[t].log[2].phase = "clear"
            /\ th[t].log[3].phase = "stats"
            /\ inflection_map = EmptyMap
            /\ th[t].result.logged.total_searches <= stats.total_searches

\* C33 witness: the checkpoint failed, and the call returned Ok with the
\* index cleared and the counters of a finished search logged.
C33_Witness ==
    \E t \in Threads :
        /\ ShutdownDone(t)
        /\ ~th[t].log[1].ok
        /\ th[t].result.ok
        /\ th[t].result.logged.total_searches = 1
        /\ inflection_map = EmptyMap

-----------------------------------------------------------------------------
(* Properties of the application's slot *)

\* Thread t is inside a call of the engine, or has its result and has not
\* returned from the command yet.
InEngine(t) ==
    /\ th[t].op \in EngineCommands \cup {"cleanup_and_shutdown"}
    /\ th[t].pc # "idle"
    /\ th[t].result # NotInitialized

\* C34: a command holds the guard of the slot from the start of its engine
\* call to its return, quit_app for the whole of cleanup_and_shutdown; so at
\* most one thread is inside the engine, and no search is in progress while
\* cleanup_and_shutdown runs.
C34_SlotGuardHeld ==
    /\ \A t \in Threads : InEngine(t) => app_state.guard = t
    /\ \A t, u \in Threads : (InEngine(t) /\ InEngine(u)) => t = u
    /\ \A t, u \in Threads :
          (th[t].op = "cleanup_and_shutdown" /\ th[t].pc # "idle") =>
              (th[u].op = "search" => (u # t /\ th[u].pc = "done"
                                             /\ th[u].result = NotInitialized))

\* C34 witness: quit_app is in the middle of cleanup_and_shutdown, about to
\* clear the index, after a search command has returned; the other thread's
\* search command has come back with the not-initialized error.
C34_Witness ==
    \E t, u \in Threads :
        /\ th[t].op = "cleanup_and_shutdown" /\ th[t].pc = "sh_index"
        /\ app_state.guard = t
        /\ hist.searches >= 1
        /\ th[u].op = "search" /\ th[u].pc = "done" /\ th[u].result = NotInitialized

\* Thread t starts a command in this step.
Starts(t) == th[t].pc = "idle" /\ th'[t].pc # "idle"

\* C35: while the slot is empty, before a successful
\* initialize_search_engine and after quit_app has taken the engine, every
\* search, suggestion, inflection and statistics command returns "Search
\* engine not initialized" and touches neither store nor index nor counters,
\* and with an engine in the slot none returns that error; each
\* cleanup_and_shutdown takes the engine out of the slot, which only a
\* successful initialize_search_engine fills again, so that no engine is shut
\* down twice; a quit_app that finds the slot empty shuts nothing down.
C35_Lifecycle ==
    /\ [][\A t \in Threads :
            (Starts(t) /\ th'[t].op \in EngineCommands) =>
                IF app_state.search_engine = "None"
                THEN /\ th'[t].pc = "done"
                     /\ th'[t].result = NotInitialized
                     /\ UNCHANGED <<store, inflection_map, stats, mutex, app_state>>
                ELSE /\ th'[t].pc # "done"
                     /\ th'[t].result # NotInitialized]_vars
    /\ [][\A t \in Threads :
            (Starts(t) /\ th'[t].op = "cleanup_and_shutdown") =>
                /\ app_state.search_engine = "Some"
                /\ app_state'.search_engine = "None"]_vars
    /\ [][\A t \in Threads :
            (Starts(t) /\ th'[t].op = "quit_app") =>
                /\ app_state.search_engine = "None"
                /\ th'[t].pc = "done"
                /\ UNCHANGED <<store, inflection_map, stats, mutex, app_state>>]_vars
    /\ [][(app_state.search_engine = "None" /\ app_state'.search_engine = "Some") =>
             hist'.installs = hist.installs + 1]_vars
    /\ [](\A t \in Threads :
            (th[t].pc = "done" /\ th[t].result = NotInitialized) =>
                (th[t].log = <<>> /\ th[t].inc = ZeroInc))

\* C35 witness: one engine was installed and a quit_app has taken it; a
\* second quit_app has found the slot empty and a search command has come
\* back with the not-initialized error.
C35_Witness ==
    \E t, u \in Threads :
        /\ hist.installs = 1
        /\ app_state.search_engine = "None"
        /\ th[t].op = "quit_app" /\ th[t].pc = "done"
        /\ th[u].op = "search" /\ th[u].pc = "done" /\ th[u].result = NotInitialized
        /\ hist.searches >= 1

-----------------------------------------------------------------------------
(* Properties of the extension registry *)

\* C36 as stated: when enable_plugin, disable_plugin or uninstall_plugin
\* returns an error, the registered identifiers and the enabled and loaded
\* flags of every plugin are what they were before the call.
C36_ErrorLeavesRegistry ==
    (~plugin_call.ok /\ plugin_call.op \in {"enable_plugin", "disable_plugin",
                                            "uninstall_plugin"}) =>
        /\ DOMAIN plugin_manager = DOMAIN plugin_call.before
        /\ \A id \in DOMAIN plugin_manager :
              /\ plugin_manager[id].enabled = plugin_call.before[id].enabled
              /\ plugin_manager[id].loaded = plugin_call.before[id].loaded

=============================================================================
